---------------------------- MODULE Spec2Model ----------------------------
(***************************************************************************)
(* A model of the pdf-loader repository (github.com/AOShei/pdf-loader):    *)
(* the page loader, the lexer, the cross-reference resolver, the           *)
(* encryption handler, the object reader and the text extractor.           *)
(*                                                                         *)
(* Bytes are integers 0..255, byte strings are sequences of bytes.  Each   *)
(* subsystem has its own variables and its own specification; a            *)
(* specification leaves the variables of the other subsystems at their     *)
(* idle values.  A Go panic is modelled as an explicit outcome ("panic"),  *)
(* because no function of the repository recovers from one.                *)
(***************************************************************************)
EXTENDS Integers, Sequences, FiniteSets, TLC

VARIABLES
    \* ---- loader.LoadPDF (src/pkg/loader/loader.go)
    pdfFile,      \* the document being loaded: a sequence of page descriptions
    loadI,        \* LoadPDF's loop variable i
    docPages,     \* doc.Pages
    reported,     \* page indexes for which an error line went to stderr
    loadPc,       \* "loop", "returned" or "panic"
    \* ---- pdf.Extractor (src/unnamed/part_002)
    ext,          \* the Extractor's fields
    textOps,      \* operations still to be processed by ExtractText
    posLast,      \* history: the last text-positioning step, its operation and
                  \* the Extractor before and after it
    gfxLog,       \* history: the q, Q and cm operations processed, with the CTM
                  \* and the depth of the stack each of them left
    \* ---- image tracking of the Extractor (src/unnamed/part_002)
    imgEnabled,   \* extractImages
    imgForms,     \* the content streams of the document's Form XObjects
    imgExt,       \* the Extractor's images and xobjects, the outcome of its last
                  \* operation and how often that operation entered each form
    imgOps,       \* operations processed so far
    imgPc,        \* "run" (ExtractText), "done" (page appended) or "overflow"
    imgPage,      \* the Images field of the page appended
    \* ---- loader.loadPDFParallel (src/pkg/loader/loader.go)
    parIn,        \* the arguments: the document's pages, numPages, workers
    parPc,        \* "start", "collect" (workers running), "done" or "panic"
    parChan,      \* the channels pageIndices and results and the sender's i
    parW,         \* every worker goroutine: where it is and the index it holds
    parMain,      \* pages, errorCount and validPages of the collecting goroutine,
                  \* and, as history, the page indices in the order received
    \* ---- pdf.Lexer (src/pkg/pdf/lexer.go)
    lexData,      \* the bytes behind the lexer's reader
    lexPos,       \* the index of the next unread byte
    lexRes,       \* what the last ReadObject call returned
    \* ---- pdf.ParseCMap (src/pkg/pdf/cmap.go)
    cmapMap,      \* cmap.Map
    cmapPc,       \* "loop", "done", "error" (nil, err returned) or "panic"
    cmapLast,     \* the last loop iteration: where it started, what it did
    \* ---- pdf.ParseXRef (src/pkg/pdf/xref.go)
    xrefData,     \* the bytes of the file as findStartXRef reads them
    xrefStart,    \* what findStartXRef returned
    xrSections,   \* the xref section found at each offset of the file
    xrPc,         \* "start", "walk", "done", "error" (nil, err) or "panic"
    xrNext,       \* nextOffset
    xrVisited,    \* visited
    xrTable,      \* table
    xrOrder,      \* the offsets in the order their sections were parsed
    \* ---- pdf.Reader (src/unnamed/part_000)
    rdEncrypt,    \* what the trailer's /Encrypt resolves to
    rdFileID,     \* the first element of the trailer's /ID
    rdPc,         \* "init", "ready", "error" (nil, err) or "panic" (the process is gone)
    rdHandler,    \* r.encryptHandler
    rdOut,        \* the last GetObject call: what was read and what it returned
    \* ---- pdf.applyPngPredictor (src/pkg/pdf/xref.go)
    pngIn,        \* the rows and the filter of each row that were encoded, and
                  \* the arguments data, columns and predictor
    pngOut,       \* what applyPngPredictor returned
    \* ---- Reader.GetPage (src/unnamed/part_000)
    ptRoot,       \* what the catalog's /Pages resolves to
    ptIndex,      \* the argument pageIndex
    ptOut,        \* what GetPage returned
    \* ---- Reader.readStream, steps 2 to 4 (src/unnamed/part_000)
    seAfter,      \* the bytes behind the lexer's reader after the keyword stream
    seLength,     \* the value of /Length
    seOut,        \* what readStream returned
    \* ---- Reader.GetObject and Reader.Resolve as calls (src/unnamed/part_000)
    goFile,       \* for every object number its xref entry and the object there
    goStack,      \* the calls that have not returned, the innermost last
    goOut         \* what the last call that returned gave back; st is "run",
                  \* "ok", "err" or "overflow" (the goroutine's stack is used up)

loaderVars == <<pdfFile, loadI, docPages, reported, loadPc>>
textVars   == <<ext, textOps>>
gfxVars    == <<gfxLog>>
posVars    == <<posLast>>
imgVars    == <<imgEnabled, imgForms, imgExt, imgOps, imgPc, imgPage>>
parVars    == <<parIn, parPc, parChan, parW, parMain>>
lexVars    == <<lexData, lexPos, lexRes>>
cmapVars   == <<cmapMap, cmapPc, cmapLast>>
startVars  == <<xrefData, xrefStart>>
walkVars   == <<xrSections, xrPc, xrNext, xrVisited, xrTable, xrOrder>>
readerVars == <<rdEncrypt, rdFileID, rdPc, rdHandler, rdOut>>
pngVars    == <<pngIn, pngOut>>
treeVars   == <<ptRoot, ptIndex, ptOut>>
eolVars    == <<seAfter, seLength, seOut>>
callVars   == <<goFile, goStack, goOut>>

-----------------------------------------------------------------------------
(* Generic helpers *)

Range(f) == {f[x] : x \in DOMAIN f}

Abs(x) == IF x < 0 THEN -x ELSE x

Last(s) == s[Len(s)]

\* the ASCII code of the characters the model uses
Ord(c) ==
    CASE c = "\n" -> 10 [] c = "\r" -> 13 [] c = "\t" -> 9
      [] c = " " -> 32  [] c = "#" -> 35  [] c = "%" -> 37
      [] c = "(" -> 40  [] c = ")" -> 41  [] c = "+" -> 43
      [] c = "-" -> 45  [] c = "." -> 46  [] c = "/" -> 47
      [] c = "0" -> 48  [] c = "1" -> 49  [] c = "2" -> 50
      [] c = "3" -> 51  [] c = "4" -> 52  [] c = "7" -> 55
      [] c = "9" -> 57  [] c = "<" -> 60  [] c = ">" -> 62
      [] c = "A" -> 65  [] c = "B" -> 66  [] c = "H" -> 72
      [] c = "R" -> 82  [] c = "[" -> 91  [] c = "\\" -> 92
      [] c = "]" -> 93  [] c = "a" -> 97  [] c = "b" -> 98
      [] c = "c" -> 99  [] c = "d" -> 100 [] c = "e" -> 101
      [] c = "f" -> 102 [] c = "g" -> 103 [] c = "h" -> 104
      [] c = "i" -> 105 [] c = "n" -> 110 [] c = "r" -> 114
      [] c = "s" -> 115 [] c = "t" -> 116 [] c = "x" -> 120
      [] c = "{" -> 123 [] c = "}" -> 125 [] c = "'" -> 39
      [] c = "\"" -> 34 [] c = "l" -> 108 [] c = "u" -> 117
      [] c = "o" -> 111 [] c = "m" -> 109 [] c = "j" -> 106
      [] c = "F" -> 70  [] c = "5" -> 53  [] c = "6" -> 54
      [] c = "8" -> 56

\* a byte string from a sequence of one-character strings
Bytes(cs) == [k \in 1..Len(cs) |-> Ord(cs[k])]

-----------------------------------------------------------------------------
(* PDF objects as the lexer produces them (tagged records; the tag t sorts   *)
(* before the payload v)                                                     *)

Num(n)   == [t |-> "num", v |-> n]
Name(s)  == [t |-> "name", v |-> s]
Str(bs)  == [t |-> "str", v |-> bs]
HexStr(bs) == [t |-> "hex", v |-> bs]
Arr(os)  == [t |-> "arr", v |-> os]

-----------------------------------------------------------------------------
(* Matrix: [6]float64.  The model runs on integers; the inputs it draws     *)
(* keep every product and quotient of the code integral.                    *)

IdentityMatrix == <<1, 0, 0, 1, 0, 0>>

\* Matrix.Mult: a multiplied by b (Go indexes from 0, the model from 1)
Mult(a, b) ==
    << a[1]*b[1] + a[2]*b[3],
       a[1]*b[2] + a[2]*b[4],
       a[3]*b[1] + a[4]*b[3],
       a[3]*b[2] + a[4]*b[4],
       a[5]*b[1] + a[6]*b[3] + b[5],
       a[5]*b[2] + a[6]*b[4] + b[6] >>

\* number(o): the value of a NumberObject, 0 for anything else
number(o) == IF o.t = "num" THEN o.v ELSE 0

\* argsToMatrix(args), called with exactly six operands
argsToMatrix(args) ==
    << number(args[1]), number(args[2]), number(args[3]),
       number(args[4]), number(args[5]), number(args[6]) >>

-----------------------------------------------------------------------------
(* Fonts (type Font) and the three decoders of handleText                    *)

EmptyMap == << >>

\* CMap keys are byte strings of one or two bytes, values are UTF-8 byte strings
NilFont ==
    [isNil |-> TRUE, CMap |-> EmptyMap, Encoding |-> EmptyMap,
     Widths |-> EmptyMap, MissingW |-> 0, SpaceWidth |-> 0]

\* an excerpt of the glyphToUnicode table
glyphToUnicode ==
    [g \in {"/space", "/A", "/fi"} |->
        CASE g = "/space" -> Bytes(<<" ">>)
          [] g = "/A"     -> Bytes(<<"A">>)
          [] g = "/fi"    -> Bytes(<<"f", "i">>)]

isPrintableASCII(b) == b >= 32 /\ b <= 126

isWhitespaceChar(b) == b = 9 \/ b = 10 \/ b = 13

\* filterControlChars: printable ASCII and TAB/LF/CR are kept, the rest dropped
filterControlChars(rawBytes) ==
    SelectSeq(rawBytes, LAMBDA b : isPrintableASCII(b) \/ isWhitespaceChar(b))

\* handleText, branch 1: two-byte key, then one-byte key, then the byte itself
RECURSIVE DecodeCMap(_, _, _)
DecodeCMap(cmap, rawBytes, i) ==
    IF i > Len(rawBytes) THEN << >>
    ELSE IF i + 1 <= Len(rawBytes) /\ SubSeq(rawBytes, i, i + 1) \in DOMAIN cmap
         THEN cmap[SubSeq(rawBytes, i, i + 1)] \o DecodeCMap(cmap, rawBytes, i + 2)
    ELSE IF SubSeq(rawBytes, i, i) \in DOMAIN cmap
         THEN cmap[SubSeq(rawBytes, i, i)] \o DecodeCMap(cmap, rawBytes, i + 1)
    ELSE <<rawBytes[i]>> \o DecodeCMap(cmap, rawBytes, i + 1)

\* the glyph names the model uses for the "/x" -> 'x' fallback
GlyphByte(glyphName) == IF glyphName = "/q" THEN 113 ELSE 122

\* handleText, branch 2: /Encoding differences through glyphToUnicode
RECURSIVE DecodeEncoding(_, _, _)
DecodeEncoding(enc, rawBytes, i) ==
    IF i > Len(rawBytes) THEN << >>
    ELSE LET b == rawBytes[i]
             out == IF b \in DOMAIN enc
                    THEN IF enc[b] \in DOMAIN glyphToUnicode
                         THEN glyphToUnicode[enc[b]]
                         ELSE IF enc[b] \in {"/q", "/z"}
                              THEN <<GlyphByte(enc[b])>>
                              ELSE <<b>>
                    ELSE <<b>>
         IN out \o DecodeEncoding(enc, rawBytes, i + 1)

\* handleText, step 3: the decoded text of rawBytes under the current font
Decode(font, rawBytes) ==
    IF ~font.isNil /\ DOMAIN font.CMap # {}
    THEN DecodeCMap(font.CMap, rawBytes, 1)
    ELSE IF ~font.isNil /\ DOMAIN font.Encoding # {}
    THEN DecodeEncoding(font.Encoding, rawBytes, 1)
    ELSE filterControlChars(rawBytes)

RECURSIVE SumWidths(_, _, _)
SumWidths(font, rawBytes, i) ==
    IF i > Len(rawBytes) THEN 0
    ELSE (IF rawBytes[i] \in DOMAIN font.Widths
          THEN font.Widths[rawBytes[i]] ELSE font.MissingW)
         + SumWidths(font, rawBytes, i + 1)

\* strings.Count(decoded, " ")
CountSpaces(bs) == Cardinality({k \in 1..Len(bs) : bs[k] = 32})

\* handleText, step 4: the advance of the shown string
TotalWidth(ts, rawBytes, decoded) ==
    IF ~ts.Font.isNil /\ DOMAIN ts.Font.Widths # {}
    THEN (((SumWidths(ts.Font, rawBytes, 1) * ts.FontSize) \div 1000
            + Len(rawBytes) * ts.CharSpacing
            + CountSpaces(decoded) * ts.WordSpacing) * ts.Scale) \div 100
    ELSE (Len(decoded) * ts.FontSize * ts.Scale) \div 200

-----------------------------------------------------------------------------
(* Extractor: NewExtractor, processOp, handleText                            *)

NewTextState ==
    [Font |-> NilFont, FontSize |-> 0, CharSpacing |-> 0, WordSpacing |-> 0,
     Scale |-> 100, Leading |-> 0, TM |-> IdentityMatrix, TLM |-> IdentityMatrix]

\* the Extractor as NewExtractor leaves it, given the page's fonts;
\* shows is the record of the handleText calls made so far
NewExtractorState(fonts) ==
    [gState |-> [CTM |-> IdentityMatrix], gStack |-> << >>,
     textState |-> NewTextState, fonts |-> fonts,
     lastX |-> 0, lastY |-> 0, buffer |-> << >>,
     panicked |-> FALSE, shows |-> << >>]

\* threshold comparison of handleText: gap > threshold, where threshold is
\* FontSize*0.2, or spaceWidth*0.5 when spaceWidth > 0
\* (spaceWidth = SpaceWidth/1000 * FontSize * Scale/100, 0 without a font)
GapOverThreshold(ts, gap) ==
    LET sw == IF ts.Font.isNil THEN 0
              ELSE ts.Font.SpaceWidth * ts.FontSize * ts.Scale
    IN IF sw > 0 THEN gap * 200000 > sw
       ELSE gap * 5 > ts.FontSize

\* the condition under which handleText writes a space in its else branch
SpaceGuardDropEmpty(buffer) ==
    ~(Len(buffer) > 0 /\ Last(buffer) = 10) /\ ~(Len(buffer) > 0 /\ Last(buffer) = 32)

SpaceGuard(buffer) ==
    Len(buffer) > 0 /\ Last(buffer) # 10 /\ Last(buffer) # 32

\* the condition under which handleText writes a newline in its then branch
NewlineGuard(buffer) == Len(buffer) > 0

\* handleText, step 2: the separator written before the string
Separator(e, x, y) ==
    IF 2 * Abs(y - e.lastY) > e.textState.FontSize
    THEN IF NewlineGuard(e.buffer) THEN <<10>> ELSE << >>
    ELSE IF GapOverThreshold(e.textState, x - e.lastX) /\ SpaceGuard(e.buffer)
         THEN <<32>> ELSE << >>

handleText(e, obj) ==
    IF obj.t \notin {"str", "hex"} THEN e
    ELSE LET rawBytes == obj.v
             fm == Mult(e.textState.TM, e.gState.CTM)
             x == fm[5]
             y == fm[6]
             sep == Separator(e, x, y)
             decoded == Decode(e.textState.Font, rawBytes)
             totalWidth == TotalWidth(e.textState, rawBytes, decoded)
             tm == e.textState.TM
         IN [e EXCEPT
               !.buffer = @ \o sep \o decoded,
               !.lastX = x + totalWidth,
               !.lastY = y,
               !.textState.TM = [tm EXCEPT ![5] = @ + totalWidth * tm[1],
                                           ![6] = @ + totalWidth * tm[2]],
               !.shows = Append(@, [before |-> e.buffer, sep |-> sep,
                                    x |-> x, y |-> y,
                                    lastX |-> e.lastX, lastY |-> e.lastY,
                                    size |-> e.textState.FontSize,
                                    wide |-> GapOverThreshold(e.textState, x - e.lastX)])]

\* an index into op.Operands that is out of range panics
Panic(e) == [e EXCEPT !.panicked = TRUE]

Translate(tx, ty) == <<1, 0, 0, 1, tx, ty>>

\* the TJ loop over the elements of its array operand
RECURSIVE ShowArray(_, _, _)
ShowArray(e, arr, k) ==
    IF k > Len(arr) THEN e
    ELSE LET obj == arr[k]
             ts == e.textState
             shift == ((((0 - obj.v) * ts.FontSize) \div 1000) * ts.Scale) \div 100
             e1 == IF obj.t = "num"
                   THEN [e EXCEPT !.textState.TM =
                            [ts.TM EXCEPT ![5] = @ + shift * ts.TM[1],
                                          ![6] = @ + shift * ts.TM[2]]]
                   ELSE handleText(e, obj)
         IN ShowArray(e1, arr, k + 1)

\* the T* case with the text matrix left as it is
OpTStarLineOnly(e) ==
    [e EXCEPT !.textState.TLM = Mult(Translate(0, 0 - e.textState.Leading), @)]

OpTStar(e) ==
    LET tlm == Mult(Translate(0, 0 - e.textState.Leading), e.textState.TLM)
    IN [e EXCEPT !.textState.TLM = tlm, !.textState.TM = tlm]

OpTj(e, operands) ==
    IF Len(operands) > 0 THEN handleText(e, operands[1]) ELSE e

\* the Q case with the stack popped but the state left as it is
OpQPopOnly(e) ==
    IF Len(e.gStack) > 0
    THEN [e EXCEPT !.gStack = SubSeq(@, 1, Len(@) - 1)]
    ELSE e

\* processOp, case "Q": the top of the stack becomes the state
OpQ(e) ==
    IF Len(e.gStack) > 0
    THEN [e EXCEPT !.gState = Last(e.gStack),
                   !.gStack = SubSeq(@, 1, Len(@) - 1)]
    ELSE e

\* Extractor.processOp: one content-stream operation
processOp(e, op) ==
    LET o == op.Operands
        n == Len(op.Operands)
        ts == e.textState
    IN CASE op.Operator = "q" ->
              [e EXCEPT !.gStack = Append(@, e.gState)]
         [] op.Operator = "Q" -> OpQ(e)
         [] op.Operator = "cm" ->
              IF n = 6
              THEN [e EXCEPT !.gState.CTM = Mult(argsToMatrix(o), @)]
              ELSE e
         [] op.Operator = "BT" ->
              [e EXCEPT !.textState.TM = IdentityMatrix,
                        !.textState.TLM = IdentityMatrix]
         [] op.Operator = "Tc" ->
              IF n < 1 THEN Panic(e)
              ELSE [e EXCEPT !.textState.CharSpacing = number(o[1])]
         [] op.Operator = "Tw" ->
              IF n < 1 THEN Panic(e)
              ELSE [e EXCEPT !.textState.WordSpacing = number(o[1])]
         [] op.Operator = "Tz" ->
              IF n < 1 THEN Panic(e)
              ELSE [e EXCEPT !.textState.Scale = number(o[1])]
         [] op.Operator = "TL" ->
              IF n < 1 THEN Panic(e)
              ELSE [e EXCEPT !.textState.Leading = number(o[1])]
         [] op.Operator = "Tf" ->
              IF n < 2 THEN Panic(e)
              ELSE [e EXCEPT !.textState.Font =
                                IF o[1].t = "name" /\ o[1].v \in DOMAIN e.fonts
                                THEN e.fonts[o[1].v] ELSE @,
                             !.textState.FontSize = number(o[2])]
         [] op.Operator = "Td" ->
              IF n < 2 THEN Panic(e)
              ELSE LET tlm == Mult(Translate(number(o[1]), number(o[2])), ts.TLM)
                   IN [e EXCEPT !.textState.TLM = tlm, !.textState.TM = tlm]
         [] op.Operator = "TD" ->
              IF n < 2 THEN Panic(e)
              ELSE LET tlm == Mult(Translate(number(o[1]), number(o[2])), ts.TLM)
                   IN [e EXCEPT !.textState.Leading = 0 - number(o[2]),
                                !.textState.TLM = tlm, !.textState.TM = tlm]
         [] op.Operator = "Tm" ->
              IF n = 6
              THEN [e EXCEPT !.textState.TM = argsToMatrix(o),
                             !.textState.TLM = argsToMatrix(o)]
              ELSE e
         [] op.Operator = "T*" -> OpTStar(e)
         [] op.Operator = "Tj" -> OpTj(e, o)
         [] op.Operator = "TJ" ->
              IF n < 1 THEN Panic(e)
              ELSE IF o[1].t = "arr" THEN ShowArray(e, o[1].v, 1) ELSE e
         [] op.Operator = "'" -> OpTj(OpTStar(e), o)
         [] op.Operator = "\"" ->
              IF n < 2 THEN Panic(e)
              ELSE OpTj(OpTStar([e EXCEPT !.textState.WordSpacing = number(o[1]),
                                          !.textState.CharSpacing = number(o[2])]),
                        SubSeq(o, 3, n))
         [] OTHER -> e

Operation(operator, operands) == [Operator |-> operator, Operands |-> operands]

-----------------------------------------------------------------------------
(* Fonts and operations the specifications draw from                         *)

\* no metrics, no CMap, no Encoding: SpaceWidth is the 250 default of loadFont
FontPlain ==
    [isNil |-> FALSE, CMap |-> EmptyMap, Encoding |-> EmptyMap,
     Widths |-> EmptyMap, MissingW |-> 0, SpaceWidth |-> 250]

\* /FirstChar 32 /Widths [5000 ...]: a wide space, and a ToUnicode CMap
FontWide ==
    [isNil |-> FALSE,
     CMap |-> (Bytes(<<"A">>) :> Bytes(<<"a", " ">>)),
     Encoding |-> EmptyMap,
     Widths |-> (32 :> 5000) @@ (65 :> 1000), MissingW |-> 0, SpaceWidth |-> 5000]

PageFonts == ("/F1" :> FontPlain) @@ ("/F2" :> FontWide)

StrHi == Str(Bytes(<<"H", "i">>))
StrA  == Str(Bytes(<<"A">>))
StrSp == Str(Bytes(<<"a", " ">>))

-----------------------------------------------------------------------------
(* Extractor.ExtractText, one operation per step                             *)

TextOperations ==
    { Operation("BT", << >>),
      Operation("Tf", <<Name("/F1"), Num(10)>>),
      Operation("Tf", <<Name("/F2"), Num(10)>>),
      Operation("Td", <<Num(50), Num(0)>>),
      Operation("Td", <<Num(4), Num(0)>>),
      Operation("Td", <<Num(0), Num(0 - 20)>>),
      Operation("Tj", <<StrHi>>),
      Operation("Tj", <<StrSp>>),
      Operation("Tj", <<HexStr(<< >>)>>),
      Operation("TJ", <<Arr(<<StrA, Num(0 - 3000), StrA>>)>>),
      Operation("TJ", <<Arr(<<StrA, Num(0 - 200), StrA>>)>>),
      Operation("'", <<StrA>>) }

MaxOps == 4

TextIdle ==
    /\ ext = NewExtractorState(EmptyMap)
    /\ textOps = 0

TextInit ==
    /\ ext = NewExtractorState(PageFonts)
    /\ textOps = 0

\* the body of ExtractText's loop: e.processOp(*op)
ProcessOpStep ==
    /\ textOps < MaxOps
    /\ ~ext.panicked
    /\ \E op \in TextOperations :
          ext' = processOp(ext, op)
    /\ textOps' = textOps + 1

\* the graphics-state operations of a content stream: q, Q, a translation, a
\* scaling, and a cm with five operands, which processOp ignores
GraphicsOperations ==
    { Operation("q", << >>),
      Operation("Q", << >>),
      Operation("cm", <<Num(1), Num(0), Num(0), Num(1), Num(3), Num(4)>>),
      Operation("cm", <<Num(2), Num(0), Num(0), Num(2), Num(0), Num(0)>>),
      Operation("cm", <<Num(2), Num(0), Num(0), Num(2), Num(0)>>) }

MaxGfxOps == 5

GraphicsIdle == gfxLog = << >>

GraphicsInit == TextInit /\ gfxLog = << >>

\* the body of ExtractText's loop on a graphics-state operation, with its
\* outcome appended to the history
GraphicsOpStep ==
    /\ textOps < MaxGfxOps
    /\ ~ext.panicked
    /\ \E op \in GraphicsOperations :
          \E e \in {processOp(ext, op)} :
             /\ ext' = e
             /\ gfxLog' = Append(gfxLog, [op |-> op.Operator, ctm |-> e.gState.CTM,
                                          depth |-> Len(e.gStack)])
    /\ textOps' = textOps + 1

\* the text-positioning operations of a content stream, with the operations
\* that set the leading, move the text matrix away from the line matrix, and
\* change the graphics state
PositionOperations ==
    { Operation("BT", << >>),
      Operation("Td", <<Num(3), Num(4)>>),
      Operation("TD", <<Num(1), Num(0 - 2)>>),
      Operation("T*", << >>),
      Operation("Tm", <<Num(2), Num(0), Num(0), Num(2), Num(5), Num(6)>>),
      Operation("Tm", <<Num(2), Num(0), Num(0), Num(2), Num(5)>>),
      Operation("TL", <<Num(7)>>),
      Operation("Tf", <<Name("/F1"), Num(10)>>),
      Operation("TJ", <<Arr(<<Num(0 - 200)>>)>>),
      Operation("q", << >>),
      Operation("cm", <<Num(2), Num(0), Num(0), Num(2), Num(0), Num(0)>>) }

MaxPosOps == 4

NoStep == [op |-> Operation("none", << >>), pre |-> NewExtractorState(EmptyMap),
           post |-> NewExtractorState(EmptyMap)]

PositionIdle == posLast = NoStep

PositionInit == TextInit /\ posLast = NoStep

\* the body of ExtractText's loop on a text-positioning operation, with the
\* step recorded
PositionOpStep ==
    /\ textOps < MaxPosOps
    /\ ~ext.panicked
    /\ \E op \in PositionOperations :
          \E e \in {processOp(ext, op)} :
             /\ ext' = e
             /\ posLast' = [op |-> op, pre |-> ext, post |-> e]
    /\ textOps' = textOps + 1

-----------------------------------------------------------------------------
(* loader.LoadPDF: one page per step                                         *)

\* the content streams a page can have: the operations the parser yields and
\* whether parser.Next() then fails with an error other than io.EOF
PageContents ==
    { [ops |-> <<Operation("BT", << >>), Operation("Tf", <<Name("/F1"), Num(10)>>),
                 Operation("Tj", <<StrHi>>)>>, parseErr |-> FALSE],
      [ops |-> <<Operation("Tj", <<StrA>>)>>, parseErr |-> TRUE],
      [ops |-> <<Operation("Tj", <<StrA>>), Operation("Tc", << >>)>>, parseErr |-> FALSE],
      [ops |-> << >>, parseErr |-> FALSE] }

\* getPage: what Reader.GetPage does for the page ("ok", "err", or "panic" when
\* a /Kids entry is not what findPage asserts it to be)
\* fontRes: /Resources /Font is absent ("none"), holds a font dictionary ("dict")
\* or holds an entry that does not resolve to a dictionary ("notdict")
PageDescriptions ==
    { [getPage |-> "err", fontRes |-> "none", content |-> [ops |-> << >>, parseErr |-> FALSE]],
      [getPage |-> "panic", fontRes |-> "none", content |-> [ops |-> << >>, parseErr |-> FALSE]] }
    \cup { [getPage |-> "ok", fontRes |-> f, content |-> c] :
              f \in {"none", "dict", "notdict"}, c \in PageContents }

MaxPages == 2

RECURSIVE RunOps(_, _, _)
RunOps(e, ops, k) ==
    IF k > Len(ops) \/ e.panicked THEN e
    ELSE RunOps(processOp(e, ops[k]), ops, k + 1)

\* NewExtractor: the font loop asserts every font entry to be a dictionary
NewExtractor(page) ==
    IF page.fontRes = "notdict" THEN Panic(NewExtractorState(EmptyMap))
    ELSE IF page.fontRes = "dict" THEN NewExtractorState(PageFonts)
    ELSE NewExtractorState(EmptyMap)

\* Extractor.ExtractText: the text, an error, or a panic out of processOp
ExtractText(e, content) ==
    LET e1 == RunOps(e, content.ops, 1)
    IN IF e1.panicked THEN [st |-> "panic", text |-> << >>]
       ELSE IF content.parseErr THEN [st |-> "err", text |-> << >>]
       ELSE [st |-> "ok", text |-> e1.buffer]

\* the body of LoadPDF's page loop for one page
PageResult(page) ==
    IF page.getPage # "ok" THEN [st |-> page.getPage, text |-> << >>]
    ELSE LET e == NewExtractor(page)
         IN IF e.panicked THEN [st |-> "panic", text |-> << >>]
            ELSE ExtractText(e, page.content)

LoaderIdle ==
    /\ pdfFile = << >>
    /\ loadI = 0
    /\ docPages = << >>
    /\ reported = {}
    /\ loadPc = "idle"

LoaderInit ==
    /\ pdfFile \in UNION {[1..n -> PageDescriptions] : n \in 0..MaxPages}
    /\ loadI = 0
    /\ docPages = << >>
    /\ reported = {}
    /\ loadPc = "loop"

\* one iteration of "for i := 0; i < numPages; i++"
LoadPage ==
    /\ loadPc = "loop"
    /\ loadI < Len(pdfFile)
    /\ LET r == PageResult(pdfFile[loadI + 1])
       IN CASE r.st = "panic" ->
                 /\ loadPc' = "panic"
                 /\ UNCHANGED <<loadI, docPages, reported>>
            [] r.st = "err" ->
                 /\ reported' = reported \cup {loadI}
                 /\ loadI' = loadI + 1
                 /\ UNCHANGED <<docPages, loadPc>>
            [] r.st = "ok" ->
                 /\ docPages' = Append(docPages,
                        [PageNumber |-> loadI + 1, Content |-> r.text,
                         CharCount |-> Len(r.text)])
                 /\ loadI' = loadI + 1
                 /\ UNCHANGED <<reported, loadPc>>
    /\ UNCHANGED pdfFile

\* doc.Pages when LoadPDF returns: the loop from page index i on, appending to
\* pages; a panic in a page leaves nothing to return
RECURSIVE LoadPDFPages(_, _, _)
LoadPDFPages(file, i, pages) ==
    IF i >= Len(file) THEN [st |-> "ok", pages |-> pages]
    ELSE LET r == PageResult(file[i + 1])
         IN IF r.st = "panic" THEN [st |-> "panic", pages |-> << >>]
            ELSE IF r.st = "err" THEN LoadPDFPages(file, i + 1, pages)
            ELSE LoadPDFPages(file, i + 1,
                    Append(pages, [PageNumber |-> i + 1, Content |-> r.text,
                                   CharCount |-> Len(r.text)]))

\* "return doc, nil"
LoadReturn ==
    /\ loadPc = "loop"
    /\ loadI >= Len(pdfFile)
    /\ loadPc' = "returned"
    /\ UNCHANGED <<pdfFile, loadI, docPages, reported>>

-----------------------------------------------------------------------------
(* Lexer (src/pkg/pdf/lexer.go).  A lexer function takes the input s and the *)
(* index p of the next unread byte and returns [st, obj, pos]: st is "ok",   *)
(* "eof" (the error io.EOF), "err" (any other error) or "panic"; pos is the  *)
(* index of the next unread byte afterwards.                                 *)

Keyword(bs) == [t |-> "kw", v |-> bs]
Boolean(b)  == [t |-> "bool", v |-> b]
NullObject  == [t |-> "null", v |-> 0]
Real(bs)    == [t |-> "real", v |-> bs]
Dict(f)     == [t |-> "dict", v |-> f]
IndirectObject(num, gen) == [t |-> "ref", v |-> <<num, gen>>]
NoObject    == [t |-> "none", v |-> 0]

Ok(obj, pos) == [st |-> "ok", obj |-> obj, pos |-> pos]
Fail(st, pos) == [st |-> st, obj |-> NoObject, pos |-> pos]

isWhitespace(b) == b \in {0, 9, 10, 12, 13, 32}

isDelimiter(b) == b \in {40, 41, 60, 62, 91, 93, 123, 125, 47, 37}

isDigit(b) == b >= 48 /\ b <= 57

isAlpha(b) == (b >= 97 /\ b <= 122) \/ (b >= 65 /\ b <= 90)

IsHexDigit(b) == isDigit(b) \/ (b >= 97 /\ b <= 102) \/ (b >= 65 /\ b <= 70)

HexVal(b) == IF isDigit(b) THEN b - 48
             ELSE IF b >= 97 THEN b - 87 ELSE b - 55

\* Lexer.skipWhitespace: the index of the first non-whitespace byte from p on
RECURSIVE skipWhitespace(_, _)
skipWhitespace(s, p) ==
    IF p <= Len(s) /\ isWhitespace(s[p]) THEN skipWhitespace(s, p + 1) ELSE p

\* byte(val) for strconv.ParseInt(string(hex), 16, 32) of the (at most two)
\* bytes read after '#'; a parse error leaves val = 0
NameEscape(hex) ==
    IF Len(hex) = 2 /\ IsHexDigit(hex[1]) /\ IsHexDigit(hex[2])
    THEN 16 * HexVal(hex[1]) + HexVal(hex[2])
    ELSE IF Len(hex) = 2 /\ hex[1] = 43 /\ IsHexDigit(hex[2]) THEN HexVal(hex[2])
    ELSE IF Len(hex) = 2 /\ hex[1] = 45 /\ IsHexDigit(hex[2])
         THEN (256 - HexVal(hex[2])) % 256
    ELSE 0

\* Lexer.readName, after the '/' has been consumed
RECURSIVE readNameLoop(_, _, _)
readNameLoop(s, p, sb) ==
    IF p > Len(s) \/ isDelimiter(s[p]) \/ isWhitespace(s[p])
    THEN Ok(Name(sb), p)
    ELSE IF s[p] = 35
         THEN LET q == IF p + 2 <= Len(s) THEN p + 2 ELSE Len(s)
              IN readNameLoop(s, q + 1, Append(sb, NameEscape(SubSeq(s, p + 1, q))))
         ELSE readNameLoop(s, p + 1, Append(sb, s[p]))

readName(s, p) == readNameLoop(s, p + 1, <<47>>)

\* the octal digits (at most two more) that follow the first digit of \ddd
OctalEnd(s, p) ==
    LET isOct(q) == q <= Len(s) /\ s[q] >= 48 /\ s[q] <= 55
    IN IF ~isOct(p) THEN p ELSE IF ~isOct(p + 1) THEN p + 1 ELSE p + 2

RECURSIVE OctalValue(_, _)
OctalValue(ds, acc) ==
    IF ds = << >> THEN acc ELSE OctalValue(Tail(ds), 8 * acc + (Head(ds) - 48))

\* the byte a one-letter escape of readString stands for
EscapeByte(next) ==
    CASE next = 110 -> 10 [] next = 114 -> 13 [] next = 116 -> 9
      [] next = 98 -> 8   [] next = 102 -> 12
      [] OTHER -> next

\* Lexer.readString, after the '(' has been consumed
RECURSIVE readStringLoop(_, _, _, _)
readStringLoop(s, p, sb, parens) ==
    IF p > Len(s) THEN Fail("eof", p)
    ELSE LET b == s[p]
         IN IF b = 40 THEN readStringLoop(s, p + 1, Append(sb, b), parens + 1)
            ELSE IF b = 41
            THEN IF parens - 1 = 0 THEN Ok(Str(sb), p + 1)
                 ELSE readStringLoop(s, p + 1, Append(sb, b), parens - 1)
            ELSE IF b = 92
            THEN IF p + 1 > Len(s)
                 THEN readStringLoop(s, p + 1, Append(sb, 0), parens)
                 ELSE LET next == s[p + 1]
                      IN IF next >= 48 /\ next <= 55
                         THEN LET q == OctalEnd(s, p + 2)
                              IN readStringLoop(s, q,
                                    Append(sb, OctalValue(SubSeq(s, p + 1, q - 1), 0) % 256),
                                    parens)
                         ELSE readStringLoop(s, p + 2, Append(sb, EscapeByte(next)), parens)
            ELSE readStringLoop(s, p + 1, Append(sb, b), parens)

readString(s, p) == readStringLoop(s, p + 1, << >>, 1)

\* Lexer.readHexString, after the '<' has been consumed: the bytes between the
\* brackets, whitespace dropped, are appended as they are
RECURSIVE readHexStringLoop(_, _, _)
readHexStringLoop(s, p, data) ==
    IF p > Len(s) THEN Fail("eof", p)
    ELSE IF s[p] = 62 THEN Ok(HexStr(data), p + 1)
    ELSE IF isWhitespace(s[p]) THEN readHexStringLoop(s, p + 1, data)
    ELSE readHexStringLoop(s, p + 1, Append(data, s[p]))

readHexString(s, p) == readHexStringLoop(s, p + 1, << >>)

\* Lexer.readTokenString: the index after the run of regular bytes from p
RECURSIVE TokenEnd(_, _)
TokenEnd(s, p) ==
    IF p > Len(s) \/ isDelimiter(s[p]) \/ isWhitespace(s[p]) THEN p
    ELSE TokenEnd(s, p + 1)

RECURSIVE DigitsEnd(_, _)
DigitsEnd(s, p) ==
    IF p <= Len(s) /\ isDigit(s[p]) THEN DigitsEnd(s, p + 1) ELSE p

RECURSIVE DecimalValue(_, _)
DecimalValue(ds, acc) ==
    IF ds = << >> THEN acc ELSE DecimalValue(Tail(ds), 10 * acc + (Head(ds) - 48))

AllDigits(ds) == ds # << >> /\ \A k \in 1..Len(ds) : isDigit(ds[k])

\* strconv.Atoi with the error dropped: 0 unless s is [+-]digits
Atoi(str) ==
    IF AllDigits(str) THEN DecimalValue(str, 0)
    ELSE IF Len(str) > 1 /\ str[1] = 43 /\ AllDigits(Tail(str))
         THEN DecimalValue(Tail(str), 0)
    ELSE IF Len(str) > 1 /\ str[1] = 45 /\ AllDigits(Tail(str))
         THEN 0 - DecimalValue(Tail(str), 0)
    ELSE 0

\* makeNumber: a token with a '.' goes through ParseFloat (kept as its text),
\* any other through Atoi
makeNumber(str) ==
    IF \E k \in 1..Len(str) : str[k] = 46 THEN Real(str) ELSE Num(Atoi(str))

\* the size of the look-ahead readNumberOrReference peeks at
PeekSize == 24

\* Lexer.readNumberOrReference
readNumberOrReference(s, p) ==
    LET e1 == TokenEnd(s, p)
        num1Str == SubSeq(s, p, e1 - 1)
        q == skipWhitespace(s, e1)
        peekEnd == IF q + PeekSize - 1 <= Len(s) THEN q + PeekSize - 1 ELSE Len(s)
        peekBuf == SubSeq(s, q, peekEnd)
        g == DigitsEnd(peekBuf, 1)
        genStr == SubSeq(peekBuf, 1, g - 1)
        r == skipWhitespace(peekBuf, g)
    IN IF genStr = << >> THEN Ok(makeNumber(num1Str), q)
       ELSE IF g > Len(peekBuf) \/ ~isWhitespace(peekBuf[g])
       THEN Ok(makeNumber(num1Str), q)
       ELSE IF r <= Len(peekBuf) /\ peekBuf[r] = 82
               /\ (r + 1 > Len(peekBuf)
                   \/ isWhitespace(peekBuf[r + 1]) \/ isDelimiter(peekBuf[r + 1]))
       THEN LET afterGen == TokenEnd(s, q)
                afterR == TokenEnd(s, skipWhitespace(s, afterGen))
            IN Ok(IndirectObject(Atoi(num1Str), Atoi(genStr)), afterR)
       ELSE Ok(makeNumber(num1Str), q)

\* Lexer.readKeywordOrBoolean
readKeywordOrBoolean(s, p) ==
    LET e1 == TokenEnd(s, p)
        token == SubSeq(s, p, e1 - 1)
    IN IF token = Bytes(<<"t", "r", "u", "e">>) THEN Ok(Boolean(TRUE), e1)
       ELSE IF token = Bytes(<<"f", "a", "l", "s", "e">>) THEN Ok(Boolean(FALSE), e1)
       ELSE IF token = Bytes(<<"n", "u", "l", "l">>) THEN Ok(NullObject, e1)
       ELSE Ok(Keyword(token), e1)

\* bufio.Reader.ReadLine: the index after the line that starts at p
RECURSIVE LineEnd(_, _)
LineEnd(s, p) ==
    IF p > Len(s) THEN p ELSE IF s[p] = 10 THEN p + 1 ELSE LineEnd(s, p + 1)

\* readArray at end of input: b, _ := l.reader.Peek(1) yields an empty slice
\* and b[0] is then out of range
readArrayAtEOFChecked(pos) == Fail("eof", pos)

readArrayAtEOF(pos) == Fail("panic", pos)

\* a Go short variable declaration x := v followed by the statements F that
\* use x: v is evaluated once
Bind(v, F(_)) == CHOOSE y \in {F(x) : x \in {v}} : TRUE

RECURSIVE ReadObject(_, _), readArrayLoop(_, _, _), readDictionaryLoop(_, _, _)

\* Lexer.readArray, after the '[' has been consumed
readArrayLoop(s, p, arr) ==
    Bind(skipWhitespace(s, p), LAMBDA q :
        IF q > Len(s) THEN readArrayAtEOF(q)
        ELSE IF s[q] = 93 THEN Ok(Arr(arr), q + 1)
        ELSE Bind(ReadObject(s, q), LAMBDA r :
                IF r.st # "ok" THEN Fail(r.st, r.pos)
                ELSE readArrayLoop(s, r.pos, Append(arr, r.obj))))

\* Lexer.readDictionary, after the "<<" has been consumed
readDictionaryLoop(s, p, dict) ==
    Bind(skipWhitespace(s, p), LAMBDA q :
        IF q + 1 <= Len(s) /\ s[q] = 62 /\ s[q + 1] = 62 THEN Ok(Dict(dict), q + 2)
        ELSE Bind(ReadObject(s, q), LAMBDA k :
                IF k.st # "ok" THEN Fail(k.st, k.pos)
                ELSE IF k.obj.t # "name" THEN Fail("err", k.pos)
                ELSE Bind(ReadObject(s, k.pos), LAMBDA val :
                        IF val.st # "ok" THEN Fail(val.st, val.pos)
                        ELSE readDictionaryLoop(s, val.pos,
                                [n \in (DOMAIN dict) \cup {k.obj.v} |->
                                    IF n = k.obj.v THEN val.obj ELSE dict[n]]))))

\* Lexer.ReadObject
ReadObject(s, p) ==
    Bind(skipWhitespace(s, p), LAMBDA q :
        IF q > Len(s) THEN Fail("eof", q)
        ELSE LET token == s[q]
             IN CASE token = 47 -> readName(s, q)
                  [] token = 40 -> readString(s, q)
                  [] token = 60 ->
                       IF q + 1 <= Len(s) /\ s[q + 1] = 60
                       THEN readDictionaryLoop(s, q + 2, EmptyMap)
                       ELSE readHexString(s, q)
                  [] token = 91 -> readArrayLoop(s, q + 1, << >>)
                  [] token = 37 -> ReadObject(s, LineEnd(s, q + 1))
                  [] token \in {39, 34} -> Ok(Keyword(<<token>>), q + 1)
                  [] OTHER ->
                       IF isDigit(token) \/ token \in {45, 43, 46}
                       THEN readNumberOrReference(s, q)
                       ELSE IF isAlpha(token) THEN readKeywordOrBoolean(s, q)
                       ELSE Fail("err", q))

-----------------------------------------------------------------------------
(* The lexer as a state machine: a caller reading object after object        *)

\* the bytes the lexer inputs are drawn from
LexAlphabet == Bytes(<<"[", "]", "<", ">", "(", ")", "/", "1", "R", " ", "a", "%", "{">>)

MaxLexLen == 3

LexInputs == UNION {[1..n -> Range(LexAlphabet)] : n \in 0..MaxLexLen}

LexerIdle ==
    /\ lexData = << >>
    /\ lexPos = 1
    /\ lexRes = [st |-> "idle", obj |-> NoObject]

LexerInit ==
    /\ lexData \in LexInputs
    /\ lexPos = 1
    /\ lexRes = [st |-> "init", obj |-> NoObject]

\* one call of Lexer.ReadObject
LexReadObject ==
    /\ lexRes.st \in {"init", "ok", "err"}
    /\ \E r \in {ReadObject(lexData, lexPos)} :
          /\ lexPos' = r.pos
          /\ lexRes' = [st |-> r.st, obj |-> r.obj]
    /\ UNCHANGED lexData

\* the hex digit for n in 0..15, in upper or lower case
HexDigit(n, upper) == IF n < 10 THEN 48 + n ELSE IF upper THEN 55 + n ELSE 87 + n

\* the source text of a hex string for the bytes b: "<", two digits per byte,
\* ">"; layout "spaced" puts a space or a line feed after every digit
RECURSIVE HexDigits(_, _)
HexDigits(b, layout) ==
    IF b = << >> THEN << >>
    ELSE LET hi == HexDigit(Head(b) \div 16, layout = "upper")
             lo == HexDigit(Head(b) % 16, layout = "upper")
         IN (IF layout = "spaced" THEN <<hi, 32, lo, 10>> ELSE <<hi, lo>>)
            \o HexDigits(Tail(b), layout)

HexSource(b, layout) == <<60>> \o HexDigits(b, layout) \o <<62>>

HexLayouts == {"lower", "upper", "spaced"}

MaxHexLen == 2

\* the byte strings written as hex strings
HexPayloads == UNION {[1..n -> {0, 10, 65, 171, 255}] : n \in 0..MaxHexLen}

\* a Lexer over the source text of one hex string
HexLexerInit ==
    /\ lexData \in {HexSource(b, layout) : b \in HexPayloads, layout \in HexLayouts}
    /\ lexPos = 1
    /\ lexRes = [st |-> "init", obj |-> NoObject]

\* the most whitespace written between the generation number and the next
\* token; the look-ahead of PeekSize bytes ends inside this range
MaxGap == 24

Spaces(n) == [k \in 1..n |-> 32]

\* the tokens that follow "<num> <gen>": R alone, R before whitespace or a
\* delimiter, and keywords
RefTails ==
    {<<82>>, <<82, 32>>, <<82, 47>>, <<82, 62>>, <<82, 101, 102, 101, 114>>,
     <<82, 82>>, <<111, 98, 106>>}

\* the source text "<num> <gen> <tail>" with gap bytes of whitespace before
\* the tail
RefSource(gen, gap, tail) == <<49, 32>> \o gen \o Spaces(gap) \o tail

RefInputs ==
    {RefSource(gen, gap, tail) :
        gen \in {<<48>>, <<54, 53>>}, gap \in 0..MaxGap, tail \in RefTails}

\* a Lexer over the source text of one number, generation and following token
RefLexerInit ==
    /\ lexData \in RefInputs
    /\ lexPos = 1
    /\ lexRes = [st |-> "init", obj |-> NoObject]

-----------------------------------------------------------------------------
(* CMap parser (src/pkg/pdf/cmap.go)                                         *)

MapSet(m, k, val) == [x \in (DOMAIN m) \cup {k} |-> IF x = k THEN val ELSE m[x]]

\* the UTF-8 encoding of a rune, as string(rune) produces it
UTF8(r) ==
    IF r < 128 THEN <<r>>
    ELSE IF r < 2048 THEN <<192 + (r \div 64), 128 + (r % 64)>>
    ELSE IF r < 65536
         THEN <<224 + (r \div 4096), 128 + ((r \div 64) % 64), 128 + (r % 64)>>
    ELSE <<240 + (r \div 262144), 128 + ((r \div 4096) % 64),
           128 + ((r \div 64) % 64), 128 + (r % 64)>>

\* utf16.Decode followed by string(): surrogate pairs join, a lone surrogate
\* becomes U+FFFD
RECURSIVE DecodeUnits(_, _)
DecodeUnits(u, i) ==
    IF i > Len(u) THEN << >>
    ELSE IF u[i] >= 55296 /\ u[i] < 56320 /\ i + 1 <= Len(u)
            /\ u[i + 1] >= 56320 /\ u[i + 1] < 57344
         THEN UTF8((u[i] - 55296) * 1024 + (u[i + 1] - 56320) + 65536)
                 \o DecodeUnits(u, i + 2)
    ELSE IF u[i] >= 55296 /\ u[i] < 57344
         THEN UTF8(65533) \o DecodeUnits(u, i + 1)
    ELSE UTF8(u[i]) \o DecodeUnits(u, i + 1)

\* decodeUTF16BE: an odd-length input is returned as it is
decodeUTF16BE(b) ==
    IF Len(b) % 2 # 0 THEN b
    ELSE DecodeUnits([k \in 1..(Len(b) \div 2) |-> b[2 * k - 1] * 256 + b[2 * k]], 1)

\* hexToInt: the bytes as a big-endian integer
RECURSIVE hexToIntAcc(_, _)
hexToIntAcc(bs, val) ==
    IF bs = << >> THEN val ELSE hexToIntAcc(Tail(bs), val * 256 + Head(bs))

hexToInt(h) == hexToIntAcc(h, 0)

RECURSIVE Pow256(_)
Pow256(n) == IF n = 0 THEN 1 ELSE 256 * Pow256(n - 1)

\* intToHex: the low byteLen bytes of val, big-endian
intToHex(val, byteLen) ==
    [k \in 1..byteLen |-> (val \div Pow256(byteLen - k)) % 256]

CMapRes(st, pos, map) == [st |-> st, pos |-> pos, map |-> map]

\* parseBFChar: pairs <src> <dst> until endbfchar
RECURSIVE parseBFChar(_, _, _)
parseBFChar(s, p, map) ==
    Bind(ReadObject(s, p), LAMBDA src :
        IF src.st # "ok" THEN CMapRes(src.st, src.pos, map)
        ELSE IF src.obj.t = "kw"
        THEN IF src.obj.v = Bytes(<<"e", "n", "d", "b", "f", "c", "h", "a", "r">>)
             THEN CMapRes("ok", src.pos, map)
             ELSE parseBFChar(s, src.pos, map)
        ELSE Bind(ReadObject(s, src.pos), LAMBDA dst :
                IF dst.st # "ok" THEN CMapRes(dst.st, dst.pos, map)
                ELSE IF src.obj.t = "hex" /\ dst.obj.t = "hex"
                THEN parseBFChar(s, dst.pos,
                                 MapSet(map, src.obj.v, decodeUTF16BE(dst.obj.v)))
                ELSE parseBFChar(s, dst.pos, map)))

\* parseBFRange, the array form: the i-th element goes to code start+i while
\* that is not beyond end
RECURSIVE RangeFromArray(_, _, _, _, _, _)
RangeFromArray(map, arr, i, startCode, endCode, byteLen) ==
    IF i > Len(arr) THEN map
    ELSE RangeFromArray(
            IF arr[i].t = "hex" /\ startCode + (i - 1) <= endCode
            THEN MapSet(map, intToHex(startCode + (i - 1), byteLen),
                        decodeUTF16BE(arr[i].v))
            ELSE map,
            arr, i + 1, startCode, endCode, byteLen)

\* parseBFRange, the sequential form: start+i goes to dst+i
RECURSIVE RangeSequential(_, _, _, _, _, _, _)
RangeSequential(map, i, startCode, endCode, byteLen, dstCode, dstLen) ==
    IF i > endCode - startCode THEN map
    ELSE RangeSequential(
            MapSet(map, intToHex(startCode + i, byteLen),
                   decodeUTF16BE(intToHex(dstCode + i, dstLen))),
            i + 1, startCode, endCode, byteLen, dstCode, dstLen)

\* parseBFRange: triples <start> <end> X until endbfrange
RECURSIVE parseBFRange(_, _, _)
parseBFRange(s, p, map) ==
    Bind(ReadObject(s, p), LAMBDA start :
        IF start.st # "ok" THEN CMapRes(start.st, start.pos, map)
        ELSE IF start.obj.t = "kw"
        THEN IF start.obj.v = Bytes(<<"e", "n", "d", "b", "f", "r", "a", "n", "g", "e">>)
             THEN CMapRes("ok", start.pos, map)
             ELSE parseBFRange(s, start.pos, map)
        ELSE Bind(ReadObject(s, start.pos), LAMBDA end :
                IF end.st # "ok" THEN CMapRes(end.st, end.pos, map)
                ELSE Bind(ReadObject(s, end.pos), LAMBDA next :
                        IF next.st # "ok" THEN CMapRes(next.st, next.pos, map)
                        ELSE IF start.obj.t # "hex" \/ end.obj.t # "hex"
                        THEN parseBFRange(s, next.pos, map)
                        ELSE LET startCode == hexToInt(start.obj.v)
                                 endCode == hexToInt(end.obj.v)
                                 byteLen == Len(start.obj.v)
                             IN IF next.obj.t = "arr"
                                THEN parseBFRange(s, next.pos,
                                        RangeFromArray(map, next.obj.v, 1,
                                                       startCode, endCode, byteLen))
                                ELSE IF next.obj.t = "hex"
                                THEN parseBFRange(s, next.pos,
                                        RangeSequential(map, 0, startCode, endCode, byteLen,
                                                        hexToInt(next.obj.v), Len(next.obj.v)))
                                ELSE parseBFRange(s, next.pos, map))))

\* the pieces CMap streams are put together from
CMapChunks ==
    { Bytes(<<"b", "e", "g", "i", "n", "b", "f", "c", "h", "a", "r", " ">>),
      Bytes(<<"e", "n", "d", "b", "f", "c", "h", "a", "r", " ">>),
      Bytes(<<"b", "e", "g", "i", "n", "b", "f", "r", "a", "n", "g", "e", " ">>),
      Bytes(<<"e", "n", "d", "b", "f", "r", "a", "n", "g", "e", " ">>),
      Bytes(<<"<", "4", "1", ">", " ">>),
      Bytes(<<"<", "4", "2", ">", " ">>),
      Bytes(<<"[", "<", "4", "1", ">", "]">>),
      Bytes(<<"d", "e", "f", " ">>),
      Bytes(<<"{">>),
      Bytes(<<"[">>) }

MaxChunks == 3

RECURSIVE Flatten(_)
Flatten(ss) == IF ss = << >> THEN << >> ELSE Head(ss) \o Flatten(Tail(ss))

CMapInputs == {Flatten(cs) : cs \in UNION {[1..n -> CMapChunks] : n \in 0..MaxChunks}}

CMapIdle ==
    /\ cmapMap = EmptyMap
    /\ cmapPc = "idle"
    /\ cmapLast = [pos |-> 0, swallowed |-> FALSE]

\* ParseCMap up to its loop: NewCMap() and NewLexer(bytes.NewReader(data))
CMapInit ==
    /\ lexData \in CMapInputs
    /\ lexPos = 1
    /\ lexRes = [st |-> "init", obj |-> NoObject]
    /\ cmapMap = EmptyMap
    /\ cmapPc = "loop"
    /\ cmapLast = [pos |-> 0, swallowed |-> FALSE]

\* where ParseCMap continues after the lexer returned an error other than
\* io.EOF; the lexer has consumed nothing of the rejected token
AfterLexError(pos) == pos

\* the switch of ParseCMap on the object r the lexer returned
CMapDispatch(s, r, map) ==
    IF r.obj.t = "kw" /\ r.obj.v = Bytes(<<"b", "e", "g", "i", "n", "b", "f", "c", "h", "a", "r">>)
    THEN parseBFChar(s, r.pos, map)
    ELSE IF r.obj.t = "kw"
            /\ r.obj.v = Bytes(<<"b", "e", "g", "i", "n", "b", "f", "r", "a", "n", "g", "e">>)
    THEN parseBFRange(s, r.pos, map)
    ELSE CMapRes("ok", r.pos, map)

\* one iteration of ParseCMap's loop; cmapLast records where the iteration
\* started and whether it swallowed a lexer error
ParseCMapStep ==
    /\ cmapPc = "loop"
    /\ \E r \in {ReadObject(lexData, lexPos)} :
          /\ lexRes' = [st |-> r.st, obj |-> r.obj]
          /\ cmapLast' = [pos |-> lexPos, swallowed |-> r.st = "err"]
          /\ CASE r.st = "eof" ->
                    /\ cmapPc' = "done"
                    /\ lexPos' = r.pos
                    /\ UNCHANGED cmapMap
               [] r.st = "panic" ->
                    /\ cmapPc' = "panic"
                    /\ lexPos' = r.pos
                    /\ UNCHANGED cmapMap
               [] r.st = "err" ->
                    /\ lexPos' = AfterLexError(r.pos)
                    /\ UNCHANGED <<cmapPc, cmapMap>>
               [] r.st = "ok" ->
                    \E sub \in {CMapDispatch(lexData, r, cmapMap)} :
                       /\ lexPos' = sub.pos
                       /\ cmapPc' = CASE sub.st = "ok" -> "loop"
                                      [] sub.st = "panic" -> "panic"
                                      [] OTHER -> "error"
                       /\ cmapMap' = IF sub.st = "ok" THEN sub.map ELSE EmptyMap
    /\ UNCHANGED lexData

\* the payloads of the first two hex strings of a bfrange entry, as the lexer
\* delivers them: one and two bytes, end before, at and after start
RangePairs ==
    { <<<<49>>, <<49>>>>, <<<<49>>, <<50>>>>, <<<<49>>, <<51>>>>, <<<<51>>, <<49>>>>,
      <<<<52, 49>>, <<52, 49>>>>, <<<<52, 49>>, <<52, 50>>>>, <<<<52, 50>>, <<52, 49>>>> }

\* the payloads of the third hex string: one and two bytes
RangeDsts == { <<49>>, <<65>>, <<52, 49>>, <<48, 65>>, <<1, 65>>, <<1, 255>> }

\* the source text of a hex string with the payload bs
HexText(bs) == <<60>> \o bs \o <<62, 32>>

\* a CMap stream with one bfrange entry
BFRangeSource(pair, dst) ==
    Bytes(<<"b", "e", "g", "i", "n", "b", "f", "r", "a", "n", "g", "e", " ">>)
    \o HexText(pair[1]) \o HexText(pair[2]) \o HexText(dst)
    \o Bytes(<<"e", "n", "d", "b", "f", "r", "a", "n", "g", "e", " ">>)

\* ParseCMap is entered on a stream with one bfrange entry
BFRangeInit ==
    /\ lexData \in {BFRangeSource(pair, dst) : pair \in RangePairs, dst \in RangeDsts}
    /\ lexPos = 1
    /\ lexRes = [st |-> "init", obj |-> NoObject]
    /\ cmapMap = EmptyMap
    /\ cmapPc = "loop"
    /\ cmapLast = [pos |-> 0, swallowed |-> FALSE]

-----------------------------------------------------------------------------
(* findStartXRef (src/pkg/pdf/xref.go)                                       *)

Max(S) == CHOOSE x \in S : \A y \in S : y <= x

Min(S) == CHOOSE x \in S : \A y \in S : x <= y

\* the number of trailing bytes findStartXRef reads
WindowSize == 1024

StartXRefKeyword == Bytes(<<"s", "t", "a", "r", "t", "x", "r", "e", "f">>)

\* the 0-based indexes at which sep occurs in buf
Occurrences(buf, sep) ==
    {i \in 0..(Len(buf) - Len(sep)) :
        buf[i + 1] = sep[1] /\ SubSeq(buf, i + 1, i + Len(sep)) = sep}

\* bytes.Index: the first occurrence, -1 if there is none
Index(buf, sep) ==
    Bind(Occurrences(buf, sep), LAMBDA occ : IF occ = {} THEN 0 - 1 ELSE Min(occ))

\* bytes.LastIndex: the last occurrence, -1 if there is none
LastIndex(buf, sep) ==
    Bind(Occurrences(buf, sep), LAMBDA occ : IF occ = {} THEN 0 - 1 ELSE Max(occ))

\* unicode.IsSpace on the single-byte characters
isSpace(b) == b \in {9, 10, 11, 12, 13, 32}

\* strings.TrimSpace
TrimSpace(c) ==
    Bind({k \in 1..Len(c) : ~isSpace(c[k])}, LAMBDA ns :
        IF ns = {} THEN << >> ELSE SubSeq(c, Min(ns), Max(ns)))

\* the loop of findStartXRef over the leading digits of content
DigitPrefix(c) ==
    Bind({k \in 1..Len(c) : ~isDigit(c[k])}, LAMBDA nd :
        IF nd = {} THEN c ELSE SubSeq(c, 1, Min(nd) - 1))

\* strconv.ParseInt(ds, 10, 64) of a string of digits: a syntax error for the
\* empty string, else its value (the inputs keep to nine digits, far from the
\* range error of int64)
ParseInt(ds) ==
    IF ds = << >> THEN [st |-> "syntax", off |-> 0]
    ELSE [st |-> "ok", off |-> DecimalValue(ds, 0)]

\* findStartXRef
findStartXRef(data) ==
    LET size == Len(data)
        readSize == IF size < WindowSize THEN size ELSE WindowSize
    IN Bind(SubSeq(data, size - readSize + 1, size), LAMBDA buf :
         Bind(LastIndex(buf, StartXRefKeyword), LAMBDA idx :
            IF idx = 0 - 1 THEN [st |-> "notfound", off |-> 0]
            ELSE ParseInt(DigitPrefix(TrimSpace(SubSeq(buf, idx + 10, Len(buf)))))))

\* the ways a file may begin, the lengths of filler that may follow, and the
\* pieces the end of the file is put together from
XRefHeads == {<< >>, Bytes(<<"s", "t", "a", "r", "t", "x", "r", "e", "f", " ", "7", " ">>)}

XRefPads == {0, 1010, 1018}

XRefTailChunks ==
    { StartXRefKeyword,
      Bytes(<<"s", "t", "a", "r", "t", "x", "r", "e">>),
      Bytes(<<"\n">>),
      Bytes(<<"1", "2">>),
      Bytes(<<"5">>),
      Bytes(<<"%">>) }

MaxTailChunks == 3

StartXRefInputs ==
    {h \o [k \in 1..n |-> 120] \o Flatten(cs) :
        h \in XRefHeads, n \in XRefPads,
        cs \in UNION {[1..m -> XRefTailChunks] : m \in 0..MaxTailChunks}}

StartXRefIdle ==
    /\ xrefData = << >>
    /\ xrefStart = [st |-> "idle", off |-> 0]

StartXRefInit ==
    /\ xrefData \in StartXRefInputs
    /\ xrefStart = [st |-> "init", off |-> 0]

\* the call of findStartXRef at the head of ParseXRef
FindStartXRef ==
    /\ xrefStart.st = "init"
    /\ xrefStart' = findStartXRef(xrefData)
    /\ UNCHANGED xrefData

-----------------------------------------------------------------------------
(* ParseXRef: the walk along /Prev (src/pkg/pdf/xref.go)                     *)
(* A section is held as the lexer and the stream decoder deliver it: the     *)
(* subsections and 20-byte lines of a classical table with its trailer, or   *)
(* the dictionary and decoded rows of an xref stream.                        *)

XRefEntry(offset, gen, free, compressed, streamObj, streamIdx) ==
    [Offset |-> offset, Generation |-> gen, Free |-> free,
     Compressed |-> compressed, StreamObj |-> streamObj, StreamIdx |-> streamIdx]

\* _, exists := m[k]
NeverExists(m, k) == FALSE

Exists(m, k) == k \in DOMAIN m

XRefRes(st, prev, tr, entries) ==
    [st |-> st, prev |-> prev, tr |-> tr, entries |-> entries]

\* the entry a line of a classical table stands for
EntryOfLine(line) == XRefEntry(line.offset, line.gen, line.flag = 102, FALSE, 0, 0)

\* readStandardXRef: the count lines of one subsection
RECURSIVE ReadLines(_, _, _, _)
ReadLines(entries, start, lines, i) ==
    IF i >= Len(lines) THEN entries
    ELSE ReadLines(IF ~Exists(entries, start + i)
                   THEN MapSet(entries, start + i, EntryOfLine(lines[i + 1]))
                   ELSE entries,
                   start, lines, i + 1)

\* readStandardXRef: the subsections up to the trailer keyword
RECURSIVE ReadSubsections(_, _)
ReadSubsections(entries, subs) ==
    IF subs = << >> THEN entries
    ELSE ReadSubsections(ReadLines(entries, Head(subs).start, Head(subs).lines, 0),
                         Tail(subs))

\* prev = int64(p.(NumberObject)) for a /Prev that is present
PrevOf(dict) ==
    IF "/Prev" \notin DOMAIN dict THEN [st |-> "ok", prev |-> 0]
    ELSE IF dict["/Prev"].t # "num" THEN [st |-> "panic", prev |-> 0]
    ELSE [st |-> "ok", prev |-> dict["/Prev"].v]

\* XRefTable.readStandardXRef
readStandardXRef(entries, sec) ==
    Bind(ReadSubsections(entries, sec.subsections), LAMBDA e2 :
        IF sec.trailer.t # "dict" THEN XRefRes("err", 0, EmptyMap, e2)
        ELSE XRefRes(PrevOf(sec.trailer.v).st, PrevOf(sec.trailer.v).prev,
                     sec.trailer.v, e2))

\* readField: a field of width 0 is 0
Field(w, row, n) == IF w[n].v = 0 THEN 0 ELSE row[n]

\* readXRefStream: the switch on f1 for an id that has no entry yet
PutFields(entries, id, f1, f2, f3) ==
    CASE f1 = 1 -> MapSet(entries, id, XRefEntry(f2, f3, FALSE, FALSE, 0, 0))
      [] f1 = 2 -> MapSet(entries, id, XRefEntry(0, 0, FALSE, TRUE, f2, f3))
      [] f1 = 0 -> MapSet(entries, id, XRefEntry(0, f3, TRUE, FALSE, 0, 0))
      [] OTHER -> entries

\* readXRefStream: the count rows of one /Index pair, read from row r on; past
\* the end of the decoded data the fields read as 0
RECURSIVE StreamRows(_, _, _, _, _, _, _)
StreamRows(entries, start, count, j, rows, r, w) ==
    IF j >= count THEN entries
    ELSE LET row == IF r + j + 1 <= Len(rows) THEN rows[r + j + 1] ELSE <<0, 0, 0>>
         IN StreamRows(IF ~Exists(entries, start + j)
                       THEN PutFields(entries, start + j, Field(w, row, 1),
                                      Field(w, row, 2), Field(w, row, 3))
                       ELSE entries,
                       start, count, j + 1, rows, r, w)

\* readXRefStream: the pairs of /Index; an odd pair count runs off the slice
RECURSIVE StreamPairs(_, _, _, _, _, _)
StreamPairs(entries, index, i, rows, r, w) ==
    IF i > Len(index) THEN [st |-> "ok", entries |-> entries]
    ELSE IF i + 1 > Len(index) THEN [st |-> "panic", entries |-> entries]
    ELSE StreamPairs(StreamRows(entries, index[i], index[i + 1], 0, rows, r, w),
                     index, i + 2, rows,
                     r + (IF index[i + 1] > 0 THEN index[i + 1] ELSE 0), w)

\* XRefTable.readXRefStream, from the stream dictionary on
readXRefStream(entries, sec) ==
    LET dict == sec.dict
        has(k) == k \in DOMAIN dict
        isNum(k) == has(k) /\ dict[k].t = "num"
        isArr(k) == has(k) /\ dict[k].t = "arr"
        allNum(a) == \A n \in 1..Len(a) : a[n].t = "num"
    IN IF ~has("/Type") \/ dict["/Type"] # Name("/XRef")
       THEN XRefRes("err", 0, EmptyMap, entries)
       ELSE IF ~isNum("/Length") THEN XRefRes("err", 0, EmptyMap, entries)
       ELSE IF ~isArr("/W") \/ Len(dict["/W"].v) # 3
       THEN XRefRes("err", 0, EmptyMap, entries)
       ELSE IF ~allNum(dict["/W"].v) THEN XRefRes("panic", 0, EmptyMap, entries)
       ELSE IF isArr("/Index") /\ ~allNum(dict["/Index"].v)
       THEN XRefRes("panic", 0, EmptyMap, entries)
       ELSE LET index == IF isArr("/Index")
                         THEN [n \in 1..Len(dict["/Index"].v) |-> dict["/Index"].v[n].v]
                         ELSE IF isNum("/Size") THEN <<0, dict["/Size"].v>>
                         ELSE << >>
            IN Bind(StreamPairs(entries, index, 1, sec.rows, 0, dict["/W"].v),
                    LAMBDA res :
                       IF res.st # "ok" THEN XRefRes(res.st, 0, EmptyMap, res.entries)
                       ELSE XRefRes(PrevOf(dict).st, PrevOf(dict).prev, dict, res.entries))

\* ParseXRef: the signature test and the section reader it selects; past the
\* end of the file fewer than 4 bytes are read
ReadSection(entries, sections, off) ==
    IF off \notin DOMAIN sections THEN XRefRes("err", 0, EmptyMap, entries)
    ELSE CASE sections[off].kind = "xref" -> readStandardXRef(entries, sections[off])
           [] sections[off].kind = "stream" -> readXRefStream(entries, sections[off])
           [] OTHER -> XRefRes("err", 0, EmptyMap, entries)

\* ParseXRef: for k, v := range tr { if !exists { table.Trailer[k] = v } }
MergeTrailer(trailer, tr) ==
    [k \in (DOMAIN trailer) \cup (DOMAIN tr) |->
        IF k \in DOMAIN tr /\ ~Exists(trailer, k) THEN tr[k] ELSE trailer[k]]

\* if visited[nextOffset]
NeverVisited(visited, off) == FALSE

Visited(visited, off) == off \in visited

\* the number of xref sections of a file; section k lies at offset k
MaxSections == 3

\* what a section's dictionary may hold under /Prev: nothing, the offset of a
\* section (or 0), or an object that is not a number
PrevChoices == {NoObject, IndirectObject(9, 0)} \cup {Num(n) : n \in 0..MaxSections}

WithPrev(dict, prev) ==
    IF prev.t = "none" THEN dict ELSE MapSet(dict, "/Prev", prev)

\* a classical table at offset k: ids 0 and 1, then ids 1 (again) and 2; the
\* table at an offset divisible by 3 has no /Root
TableSection(k, prev) ==
    [kind |-> "xref",
     subsections |->
        << [start |-> 0,
            lines |-> << [offset |-> 0, gen |-> 65535, flag |-> 102],
                         [offset |-> 10 * k + 1, gen |-> 0, flag |-> 110] >>],
           [start |-> 1,
            lines |-> << [offset |-> 10 * k + 5, gen |-> 1, flag |-> 110],
                         [offset |-> 10 * k + 2, gen |-> 0, flag |-> 110] >>] >>,
     trailer |->
        Dict(WithPrev(IF k % 3 = 0
                      THEN ("/Size" :> Num(3)) @@ ("/Info" :> IndirectObject(10 * k + 1, 0))
                      ELSE ("/Size" :> Num(3)) @@ ("/Root" :> IndirectObject(10 * k + 2, 0)),
                      prev))]

\* an xref stream at offset k: rows for ids 1 (of a type that is none of 0, 1
\* and 2), 2 and 3
StreamSection(k, prev) ==
    [kind |-> "stream",
     dict |-> WithPrev(("/Type" :> Name("/XRef")) @@ ("/Length" :> Num(12))
                       @@ ("/W" :> Arr(<<Num(1), Num(2), Num(1)>>))
                       @@ ("/Index" :> Arr(<<Num(1), Num(3)>>))
                       @@ ("/Size" :> Num(4))
                       @@ ("/Root" :> IndirectObject(10 * k + 2, 0)),
                       prev),
     rows |-> << <<3, 7, 7>>, <<1, 10 * k + 2, 0>>, <<2, 10 * k + 4, 5>> >>]

\* bytes at offset k that are neither a table nor an object
CorruptSection == [kind |-> "corrupt"]

XRefFiles ==
    {[k \in 1..MaxSections |->
        IF k = corrupt THEN CorruptSection
        ELSE IF k % 2 = 0 THEN StreamSection(k, prevs[k])
        ELSE TableSection(k, prevs[k])] :
     prevs \in [1..MaxSections -> PrevChoices], corrupt \in {0, MaxSections}}

\* the ends of the files: no startxref at all, or one that names offset 0, a
\* section, or an offset past the end of the file
XRefTails ==
    {Bytes(<<"%", "%">>)}
    \cup {StartXRefKeyword \o <<10, 48 + n, 10, 37, 37>> : n \in {0, 1, 2, MaxSections + 1}}

NewXRefTable == [Entries |-> EmptyMap, Trailer |-> EmptyMap]

XRefIdle ==
    /\ xrSections = << >>
    /\ xrPc = "idle"
    /\ xrNext = 0
    /\ xrVisited = {}
    /\ xrTable = NewXRefTable
    /\ xrOrder = << >>

\* ParseXRef is entered: table := NewXRefTable()
XRefInit ==
    /\ xrefData \in XRefTails
    /\ xrefStart = [st |-> "init", off |-> 0]
    /\ xrSections \in XRefFiles
    /\ xrPc = "start"
    /\ xrNext = 0
    /\ xrVisited = {}
    /\ xrTable = NewXRefTable
    /\ xrOrder = << >>

\* ParseXRef up to its loop: findStartXRef and visited := make(map)
ParseXRefBegin ==
    /\ xrPc = "start"
    /\ \E r \in {findStartXRef(xrefData)} :
          /\ xrefStart' = r
          /\ xrPc' = IF r.st = "ok" THEN "walk" ELSE "error"
          /\ xrNext' = r.off
    /\ UNCHANGED <<xrefData, xrSections, xrVisited, xrTable, xrOrder>>

\* one iteration of the loop of ParseXRef; xrOrder records the offsets in the
\* order their sections are parsed
ParseXRefIter ==
    /\ xrPc = "walk"
    /\ xrNext # 0
    /\ ~Visited(xrVisited, xrNext)
    /\ xrVisited' = xrVisited \cup {xrNext}
    /\ xrOrder' = Append(xrOrder, xrNext)
    /\ \E r \in {ReadSection(xrTable.Entries, xrSections, xrNext)} :
          /\ xrPc' = CASE r.st = "ok" -> "walk"
                       [] r.st = "panic" -> "panic"
                       [] OTHER -> "error"
          /\ xrTable' = [Entries |-> r.entries,
                         Trailer |-> IF r.st = "ok"
                                     THEN MergeTrailer(xrTable.Trailer, r.tr)
                                     ELSE xrTable.Trailer]
          /\ xrNext' = IF r.st = "ok" THEN r.prev ELSE xrNext
    /\ UNCHANGED <<xrefData, xrefStart, xrSections>>

\* the loop of ParseXRef is left and the table is returned if it has a /Root
ParseXRefReturn ==
    /\ xrPc = "walk"
    /\ xrNext = 0 \/ Visited(xrVisited, xrNext)
    /\ xrPc' = IF "/Root" \in DOMAIN xrTable.Trailer THEN "done" ELSE "error"
    /\ UNCHANGED <<xrefData, xrefStart, xrSections, xrNext, xrVisited, xrTable, xrOrder>>

\* a classical table at offset k with one subsection of two lines from id
\* start on, and a trailer that declares /Size size
SizedTable(k, start, size, prev) ==
    [kind |-> "xref",
     subsections |->
        << [start |-> start,
            lines |-> << [offset |-> 10 * k + 1, gen |-> 0, flag |-> 110],
                         [offset |-> 10 * k + 2, gen |-> 1, flag |-> 110] >>] >>,
     trailer |-> Dict(WithPrev(("/Size" :> Num(size))
                               @@ ("/Root" :> IndirectObject(1, 0)), prev))]

\* an xref stream at offset k with two decoded rows, first field width w0,
\* with /Index index (none when it is empty) and /Size size
SizedStream(k, w0, index, size, prev) ==
    [kind |-> "stream",
     dict |-> WithPrev((IF index = << >> THEN EmptyMap
                        ELSE ("/Index" :> Arr([n \in 1..Len(index) |-> Num(index[n])])))
                       @@ ("/Type" :> Name("/XRef")) @@ ("/Length" :> Num(8))
                       @@ ("/W" :> Arr(<<Num(w0), Num(2), Num(1)>>))
                       @@ ("/Size" :> Num(size))
                       @@ ("/Root" :> IndirectObject(1, 0)),
                       prev),
     rows |-> << <<w0, 10 * k + 3, 0>>, <<w0, 10 * k + 4, 2>> >>]

SizedSections(k, prevs) ==
    {SizedTable(k, start, size, prev) :
        start \in {0, 2}, size \in {2, 4}, prev \in prevs}
    \cup UNION {{SizedStream(k, w0, index, size, prev) :
                    w0 \in {0, 1}, index \in {<< >>, <<0, 2>>, <<2, 2>>}, size \in {2, 4}} :
                prev \in prevs}

\* files of two sections; the first may name the second under /Prev
SizedFiles ==
    {<<s1, s2>> : s1 \in SizedSections(1, {NoObject, Num(2)}),
                  s2 \in SizedSections(2, {NoObject})}

\* ParseXRef is entered on a file whose startxref names one of two sections
SizedXRefInit ==
    /\ xrefData \in {StartXRefKeyword \o <<10, 48 + n, 10, 37, 37>> : n \in {1, 2}}
    /\ xrefStart = [st |-> "init", off |-> 0]
    /\ xrSections \in SizedFiles
    /\ xrPc = "start"
    /\ xrNext = 0
    /\ xrVisited = {}
    /\ xrTable = NewXRefTable
    /\ xrOrder = << >>

-----------------------------------------------------------------------------
(* Encryption handler (src/unnamed/part_000, encrypt.go)                     *)
(* The primitives of the Go standard library are stood for by small          *)
(* functions that keep what the handler depends on: the sizes of their       *)
(* inputs and outputs, the inputs they reject, and that their output is not  *)
(* their input.                                                              *)

RECURSIVE SumBytes(_)
SumBytes(bs) == IF bs = << >> THEN 0 ELSE Head(bs) + SumBytes(Tail(bs))

\* a xor b on n-bit numbers
RECURSIVE Xor(_, _, _)
Xor(a, b, n) ==
    IF n = 0 THEN 0
    ELSE (((a % 2) + (b % 2)) % 2) + 2 * Xor(a \div 2, b \div 2, n - 1)

\* md5.Sum: 16 bytes that depend on every byte of the input and on its length
MD5(data) ==
    Bind(SumBytes(data), LAMBDA sum :
        [i \in 1..16 |-> (sum * i + 7 * Len(data) + 31 * i) % 256])

\* the key stream of rc4.NewCipher(key), byte i
RC4KeyStream(key, i) == (key[((i - 1) % Len(key)) + 1] + 13 * i) % 256

\* cipher.XORKeyStream
XORKeyStream(key, data) ==
    [i \in 1..Len(data) |-> Xor(data[i], RC4KeyStream(key, i), 8)]

\* aes.NewCipher accepts keys of 16, 24 and 32 bytes only
AESKeySizes == {16, 24, 32}

\* cipher.NewCBCDecrypter(block, iv).CryptBlocks on whole blocks: every byte is
\* deciphered with the key and chained with the block before it
CryptBlocks(key, iv, ciphertext) ==
    [i \in 1..Len(ciphertext) |->
        Xor(Xor(ciphertext[i], key[((i - 1) % Len(key)) + 1], 8),
            IF i <= 16 THEN iv[i] ELSE ciphertext[i - 16], 8)]

paddingString ==
    <<40, 191, 78, 94, 78, 117, 138, 65, 100, 0, 78, 86, 255, 250, 1, 8,
      46, 46, 0, 182, 208, 104, 62, 128, 47, 12, 169, 254, 100, 83, 105, 122>>

\* padPassword
padPassword(password) ==
    IF Len(password) < 32
    THEN password \o SubSeq(paddingString, 1, 32 - Len(password))
    ELSE SubSeq(password, 1, 32)

\* encodePermissions: the four bytes of the int32, low byte first
encodePermissions(p) ==
    <<p % 256, (p \div 256) % 256, (p \div 65536) % 256, (p \div 16777216) % 256>>

\* digest[:keyLen] of a 16-byte digest: out of range beyond 16 and below 0
SliceOk(keyLen) == keyLen >= 0 /\ keyLen <= 16

\* Go's int division truncates toward zero
Quot(a, b) == IF a >= 0 THEN a \div b ELSE 0 - ((0 - a) \div b)

\* computeEncryptionKey, step 6: n further rounds of digest = md5(digest[:keyLen]),
\* taken as the first half of the rounds followed by the rest
RECURSIVE KeyRounds(_, _, _)
KeyRounds(digest, keyLen, n) ==
    IF n = 0 THEN digest
    ELSE IF n = 1 THEN MD5(SubSeq(digest, 1, keyLen))
    ELSE Bind(KeyRounds(digest, keyLen, n \div 2), LAMBDA dg :
            KeyRounds(dg, keyLen, n - (n \div 2)))

\* EncryptionHandler.computeEncryptionKey
computeEncryptionKey(dict, fileID, R, password) ==
    LET keyLen == Quot(dict.Length, 8)
        digest == MD5(padPassword(password) \o dict.O \o encodePermissions(dict.P)
                      \o fileID
                      \o (IF R >= 4 /\ ~dict.EncryptMetadata
                          THEN <<255, 255, 255, 255>> ELSE << >>))
    IN IF ~SliceOk(keyLen) THEN [st |-> "panic", key |-> << >>]
       ELSE [st |-> "ok",
             key |-> SubSeq(IF R >= 3 THEN KeyRounds(digest, keyLen, 50) ELSE digest,
                            1, keyLen)]

\* ParseEncryptDict, given the object /Encrypt resolves to
ParseEncryptDict(obj) ==
    LET dict == obj.v
        has(k, tags) == k \in DOMAIN dict /\ dict[k].t \in tags
        err == [st |-> "err", dict |-> EmptyMap]
    IN IF obj.t # "dict" THEN err
       ELSE IF ~has("/Filter", {"name"}) THEN err
       ELSE IF dict["/Filter"].v # "/Standard" THEN err
       ELSE IF ~has("/V", {"num"}) THEN err
       ELSE IF ~has("/R", {"num"}) THEN err
       ELSE IF ~has("/O", {"str", "hex"}) THEN err
       ELSE IF ~has("/U", {"str", "hex"}) THEN err
       ELSE IF ~has("/P", {"num"}) THEN err
       ELSE [st |-> "ok",
             dict |-> [Filter |-> dict["/Filter"].v,
                       V |-> dict["/V"].v,
                       R |-> dict["/R"].v,
                       O |-> dict["/O"].v,
                       U |-> dict["/U"].v,
                       P |-> dict["/P"].v,
                       Length |-> IF has("/Length", {"num"}) THEN dict["/Length"].v
                                  ELSE IF dict["/R"].v = 2 THEN 40 ELSE 128,
                       EncryptMetadata |-> IF has("/EncryptMetadata", {"bool"})
                                           THEN dict["/EncryptMetadata"].v ELSE TRUE]]

\* r.encryptHandler == nil
NilHandler == [nil |-> TRUE]

\* NewEncryptionHandler
NewEncryptionHandler(encDict, fileID) ==
    Bind(computeEncryptionKey(encDict, fileID, encDict.R, << >>), LAMBDA k :
        IF k.st # "ok" THEN [st |-> "panic", handler |-> NilHandler]
        ELSE [st |-> "ok",
              handler |-> [nil |-> FALSE, Dict |-> encDict, FileID |-> fileID,
                           EncryptKey |-> k.key, V |-> encDict.V, R |-> encDict.R]])

\* EncryptionHandler.computeObjectKey
computeObjectKey(h, objNum, genNum) ==
    LET keyLen == Len(h.EncryptKey)
        key == h.EncryptKey
               \o <<objNum % 256, (objNum \div 256) % 256, (objNum \div 65536) % 256,
                    genNum % 256, (genNum \div 256) % 256>>
               \o (IF h.V >= 4 THEN <<115, 65, 108, 84>> ELSE << >>)
    IN SubSeq(MD5(key), 1, IF keyLen + 5 > 16 THEN 16 ELSE keyLen + 5)

DecRes(st, data) == [st |-> st, data |-> data]

\* EncryptionHandler.decryptRC4
decryptRC4(h, data, objNum, genNum) ==
    IF Len(data) = 0 THEN DecRes("ok", data)
    ELSE DecRes("ok", XORKeyStream(computeObjectKey(h, objNum, genNum), data))

\* removePadding
removePadding(data) ==
    IF Len(data) = 0 THEN data
    ELSE LET paddingLen == data[Len(data)]
         IN IF paddingLen = 0 \/ paddingLen > 16 \/ paddingLen > Len(data) THEN data
            ELSE IF \E i \in (Len(data) - paddingLen + 1)..Len(data) : data[i] # paddingLen
            THEN data
            ELSE SubSeq(data, 1, Len(data) - paddingLen)

\* CryptBlocks on input that is not a whole number of blocks panics
\* ("crypto/cipher: input not full blocks")
CryptBlocksPartial(key, iv, ciphertext) == DecRes("panic", << >>)

\* EncryptionHandler.decryptAES
decryptAES(h, data, objNum, genNum) ==
    IF Len(data) < 16 THEN DecRes("err", << >>)
    ELSE Bind(computeObjectKey(h, objNum, genNum), LAMBDA key :
            LET iv == SubSeq(data, 1, 16)
                ciphertext == SubSeq(data, 17, Len(data))
            IN IF Len(key) \notin AESKeySizes THEN DecRes("err", << >>)
               ELSE IF Len(ciphertext) % 16 # 0 THEN CryptBlocksPartial(key, iv, ciphertext)
               ELSE DecRes("ok", removePadding(CryptBlocks(key, iv, ciphertext))))

\* EncryptionHandler.Decrypt
Decrypt(h, data, objNum, genNum) ==
    IF Len(data) = 0 THEN DecRes("ok", data)
    ELSE CASE h.V \in {1, 2} -> decryptRC4(h, data, objNum, genNum)
           [] h.V = 4 -> decryptAES(h, data, objNum, genNum)
           [] OTHER -> DecRes("err", << >>)

-----------------------------------------------------------------------------
(* Reader (src/unnamed/part_000, reader.go)                                  *)

\* no key is kept from decryption
NoMetadataKey(key) == FALSE

\* isMetadataKey
isMetadataKey(key) ==
    key \in {"/Type", "/Subtype", "/Length", "/Filter", "/DecodeParms", "/Width",
             "/Height", "/BitsPerComponent", "/ColorSpace", "/Encrypt", "/ID",
             "/Size", "/Root", "/Info", "/Prev", "/Index", "/W", "/First", "/N"}

\* Reader.decryptObject
RECURSIVE decryptObject(_, _, _, _)
decryptObject(h, obj, objNum, genNum) ==
    IF h.nil THEN [st |-> "ok", obj |-> obj]
    ELSE CASE obj.t \in {"str", "hex"} ->
                Bind(Decrypt(h, obj.v, objNum, genNum), LAMBDA r :
                    CASE r.st = "ok" -> [st |-> "ok", obj |-> [t |-> obj.t, v |-> r.data]]
                      [] r.st = "err" -> [st |-> "ok", obj |-> obj]
                      [] OTHER -> [st |-> "panic", obj |-> NoObject])
           [] obj.t = "arr" ->
                Bind([i \in 1..Len(obj.v) |-> decryptObject(h, obj.v[i], objNum, genNum)],
                     LAMBDA rs :
                        IF \E i \in 1..Len(rs) : rs[i].st # "ok"
                        THEN [st |-> "panic", obj |-> NoObject]
                        ELSE [st |-> "ok", obj |-> Arr([i \in 1..Len(rs) |-> rs[i].obj])])
           [] obj.t = "dict" ->
                Bind([k \in DOMAIN obj.v |->
                        IF isMetadataKey(k) THEN [st |-> "ok", obj |-> obj.v[k]]
                        ELSE decryptObject(h, obj.v[k], objNum, genNum)],
                     LAMBDA rs :
                        IF \E k \in DOMAIN rs : rs[k].st # "ok"
                        THEN [st |-> "panic", obj |-> NoObject]
                        ELSE [st |-> "ok", obj |-> Dict([k \in DOMAIN rs |-> rs[k].obj])])
           [] OTHER -> [st |-> "ok", obj |-> obj]

\* zlib.NewReader: the two header bytes must name deflate with a window of at
\* most 32K, be a multiple of 31 and ask for no preset dictionary
ZlibHeaderOk(data) ==
    /\ Len(data) >= 2
    /\ data[1] % 16 = 8
    /\ data[1] \div 16 <= 7
    /\ (data[1] * 256 + data[2]) % 31 = 0
    /\ (data[2] \div 32) % 2 = 0

\* the compressed form this model gives to payload: the header, the length, the
\* bytes each raised by one, and a checksum
Zip(payload) ==
    <<120, 156, Len(payload)>> \o [i \in 1..Len(payload) |-> (payload[i] + 1) % 256]
        \o <<SumBytes(payload) % 256>>

\* io.ReadAll(zr) on data whose header is in order
ZlibReadAll(data) ==
    LET body == SubSeq(data, 3, Len(data))
        stored == SubSeq(body, 2, Len(body) - 1)
        payload == [i \in 1..Len(stored) |-> (stored[i] + 255) % 256]
    IN IF Len(body) >= 2 /\ body[1] = Len(body) - 2
          /\ body[Len(body)] = SumBytes(payload) % 256
       THEN [st |-> "ok", data |-> payload]
       ELSE [st |-> "err", data |-> << >>]

\* readStream, step 5: the names under /Filter
FilterNames(dict) ==
    IF "/Filter" \notin DOMAIN dict THEN << >>
    ELSE IF dict["/Filter"].t = "name" THEN <<dict["/Filter"].v>>
    ELSE IF dict["/Filter"].t = "arr"
    THEN LET arr == dict["/Filter"].v
             RECURSIVE names(_)
             names(i) == IF i > Len(arr) THEN << >>
                         ELSE (IF arr[i].t = "name" THEN <<arr[i].v>> ELSE << >>)
                              \o names(i + 1)
         IN names(1)
    ELSE << >>

\* readStream, step 5: the loop over the filters; a header zlib rejects ends
\* it with the data as it stands, a body it rejects leaves the data as it is
RECURSIVE ApplyFilters(_, _)
ApplyFilters(filters, finalData) ==
    IF filters = << >> THEN finalData
    ELSE IF Head(filters) # "/FlateDecode" THEN ApplyFilters(Tail(filters), finalData)
    ELSE IF ~ZlibHeaderOk(finalData) THEN finalData
    ELSE Bind(ZlibReadAll(finalData), LAMBDA r :
            ApplyFilters(Tail(filters), IF r.st = "ok" THEN r.data ELSE finalData))

\* the bytes as read, whatever Decrypt returned
DataUndecrypted(raw, dec) == raw

\* readStream, step 4.5: if err == nil { data = decrypted }
DataToFilter(raw, dec) == IF dec.st = "ok" THEN dec.data ELSE raw

StreamRes(st, dict, data) == [st |-> st, obj |-> [t |-> "stream", v |-> data, dict |-> dict]]

\* Reader.readStream; body holds the bytes that follow the stream keyword and
\* its end of line
readStream(h, dict, body, objNum, genNum) ==
    IF "/Length" \notin DOMAIN dict \/ dict["/Length"].t # "num"
    THEN StreamRes("err", EmptyMap, << >>)
    ELSE LET length == dict["/Length"].v
         IN IF length < 0 THEN StreamRes("panic", EmptyMap, << >>)
            ELSE IF length > Len(body) THEN StreamRes("err", EmptyMap, << >>)
            ELSE Bind(SubSeq(body, 1, length), LAMBDA raw :
                  Bind(IF h.nil THEN DecRes("err", << >>)
                       ELSE Decrypt(h, raw, objNum, genNum), LAMBDA dec :
                     IF dec.st = "panic" THEN StreamRes("panic", EmptyMap, << >>)
                     ELSE StreamRes("ok", dict,
                             ApplyFilters(FilterNames(dict), DataToFilter(raw, dec)))))

\* the encryption dictionaries the documents are given
EncDict(filter, V, R, length, missing) ==
    LET all == ("/Filter" :> Name(filter)) @@ ("/V" :> Num(V)) @@ ("/R" :> Num(R))
               @@ ("/O" :> Str(<<1, 2, 3, 4>>)) @@ ("/U" :> HexStr(<<5, 6, 7, 8>>))
               @@ ("/P" :> Num(0 - 44))
               @@ (IF length.t = "num" THEN "/Length" :> length ELSE EmptyMap)
    IN Dict([k \in (DOMAIN all) \ {missing} |-> all[k]])

LengthChoices == {NoObject} \cup {Num(n) : n \in {0 - 8, 0, 40, 128, 256}}

\* what /Encrypt resolves to (NoObject: the trailer has no /Encrypt): every
\* version with every revision, the key lengths with RC4 and with AES, and
\* dictionaries that lack an entry
EncryptObjects ==
    {NoObject, Str(<<1>>), EncDict("/Custom", 1, 2, NoObject, "none")}
    \cup {EncDict("/Standard", V, R, NoObject, "none") : V \in 1..5, R \in 2..5}
    \cup {EncDict("/Standard", V, 3, length, "none") :
            V \in {2, 4}, length \in LengthChoices}
    \cup {EncDict("/Standard", 1, 2, NoObject, missing) :
            missing \in {"/Filter", "/V", "/R", "/O", "/U", "/P"}}

FileIDs == {<<9, 9>>}

\* n bytes that are no zlib data
Filler(n) == [i \in 1..n |-> (37 * i) % 256]

\* a dictionary with strings three levels down, beneath /ID and beside it
NestedObject ==
    Dict(("/Kids" :>
            Arr(<< Dict(("/ID" :> Arr(<<Str(Filler(5)),
                                        Dict("/T" :> HexStr(Filler(5)))>>))
                        @@ ("/T" :> Str(Filler(5))) @@ ("/N" :> Num(1))),
                   Name("/X"), Boolean(FALSE), NullObject >>))
         @@ ("/Info" :> Str(Filler(16))))

\* the objects GetObject finds at an offset, strings of the lengths that matter
\* to the ciphers among them
PlainObjects ==
    { Str(<< >>), Str(Filler(5)), Str(Filler(16)), Str(Filler(17)), Str(Filler(32)),
      HexStr(Filler(17)), HexStr(Filler(5)), Num(3),
      Arr(<<Str(Filler(5)), Num(1)>>),
      Dict(("/Title" :> Str(Filler(32))) @@ ("/ID" :> Str(Filler(5)))),
      Name("/X"), Boolean(TRUE), NullObject, NestedObject }

\* the bytes of the streams: no zlib data (3, 17 and 32 bytes), a zlib header
\* with a broken body, and compressed data
StreamBodies ==
    { Filler(3), Filler(17), Filler(32), <<120, 156, 9, 9>>,
      Zip(<<72, 105>>), Zip(Filler(3)) }

\* the stream dictionaries for a body: no filter, /FlateDecode, /FlateDecode
\* twice, and a /Length that is missing, negative or beyond the body
StreamDicts(body) ==
    { "/Length" :> Num(Len(body)),
      ("/Length" :> Num(Len(body))) @@ ("/Filter" :> Name("/FlateDecode")),
      ("/Length" :> Num(Len(body)))
          @@ ("/Filter" :> Arr(<<Name("/FlateDecode"), Name("/FlateDecode")>>)) }
    \cup (IF Len(body) = 3
          THEN { "/Filter" :> Name("/FlateDecode"),
                 ("/Length" :> Num(0 - 1)) @@ ("/Filter" :> Name("/FlateDecode")),
                 ("/Length" :> Num(Len(body) + 1)) @@ ("/Filter" :> Name("/FlateDecode")) }
          ELSE {})

\* the object and generation numbers of the objects read
ObjectNumbers == {7}

NoOutput == [op |-> "none", in |-> NoObject, num |-> 0, st |-> "ok", obj |-> NoObject]

ReaderIdle ==
    /\ rdEncrypt = NoObject
    /\ rdFileID = << >>
    /\ rdPc = "idle"
    /\ rdHandler = NilHandler
    /\ rdOut = NoOutput

\* NewReader is entered with the xref table parsed
ReaderInit ==
    /\ rdEncrypt \in EncryptObjects
    /\ rdFileID \in FileIDs
    /\ rdPc = "init"
    /\ rdHandler = NilHandler
    /\ rdOut = NoOutput

\* NewReader, step 2: the encryption handler
NewReader ==
    /\ rdPc = "init"
    /\ IF rdEncrypt.t = "none"
       THEN rdPc' = "ready" /\ rdHandler' = NilHandler
       ELSE \E enc \in {ParseEncryptDict(rdEncrypt)} :
               IF enc.st # "ok"
               THEN rdPc' = "error" /\ rdHandler' = NilHandler
               ELSE \E r \in {NewEncryptionHandler(enc.dict, rdFileID)} :
                       /\ rdPc' = IF r.st = "ok" THEN "ready" ELSE "panic"
                       /\ rdHandler' = r.handler
    /\ UNCHANGED <<rdEncrypt, rdFileID, rdOut>>

\* GetObject for an object that is no stream: the object read at the offset
\* goes through decryptObject if there is a handler
GetObject ==
    /\ rdPc = "ready"
    /\ \E obj \in PlainObjects, objNum \in ObjectNumbers :
          \E r \in {decryptObject(rdHandler, obj, objNum, 0)} :
             /\ rdOut' = [op |-> "object", in |-> obj, num |-> objNum,
                          st |-> r.st, obj |-> r.obj]
             /\ rdPc' = IF r.st = "panic" THEN "panic" ELSE "ready"
    /\ UNCHANGED <<rdEncrypt, rdFileID, rdHandler>>

\* the streams of a document: the bodies as they are and, encrypted with RC4,
\* the same bodies under the key of the object
BodiesFor(h, objNum) ==
    StreamBodies
    \cup (IF ~h.nil /\ h.V \in {1, 2}
          THEN {XORKeyStream(computeObjectKey(h, objNum, 0), b) : b \in StreamBodies}
          ELSE {})

\* GetObject for a dictionary that is followed by the stream keyword
GetStream ==
    /\ rdPc = "ready"
    /\ \E objNum \in ObjectNumbers :
         \E body \in BodiesFor(rdHandler, objNum) :
           \E dict \in StreamDicts(body) :
             \E r \in {readStream(rdHandler, dict, body, objNum, 0)} :
                /\ rdOut' = [op |-> "stream",
                             in |-> [t |-> "stream", v |-> body, dict |-> dict],
                             num |-> objNum, st |-> r.st, obj |-> r.obj]
                /\ rdPc' = IF r.st = "panic" THEN "panic" ELSE "ready"
    /\ UNCHANGED <<rdEncrypt, rdFileID, rdHandler>>

-----------------------------------------------------------------------------
(* Image tracking: NewExtractor, processOp (INLINE_IMAGE, Do), recordImage,  *)
(* processFormXObject, recordNestedImage                                     *)

\* a nil *[]model.Image, and a pointer to a slice
NilImages == [nil |-> TRUE, list |-> << >>]

Images(list) == [nil |-> FALSE, list |-> list]

\* e.images with the slice made whatever the flag
NewImagesAlways(extractImages) == Images(<< >>)

\* NewExtractor: e.images is set only if extraction is enabled
NewImages(extractImages) == IF extractImages THEN Images(<< >>) ELSE NilImages

\* the XObjects of the document: 1 and 2 are Form streams, 3 is an Image, 4 is
\* a /Form that is a dictionary and no stream, 5 has another subtype
FormIds == {1, 2}

XObjects ==
    [id \in 1..5 |->
        [id |-> id,
         kind |-> IF id = 4 THEN "dict" ELSE "stream",
         Subtype |-> CASE id \in FormIds \cup {4} -> "/Form"
                       [] id = 3 -> "/Image"
                       [] OTHER -> "/PS",
         Width |-> IF id = 3 THEN 640 ELSE 0]]

\* the /XObject dictionary every /Resources in the document has
XObjectNames ==
    ("/A" :> 1) @@ ("/B" :> 2) @@ ("/Im" :> 3) @@ ("/D" :> 4) @@ ("/P" :> 5)

\* the nesting of processFormXObject at which the goroutine's stack is used up
\* (1 GB in the runtime; a depth no acyclic document of the model reaches)
MaxFormDepth == 4

ImageRecord(type, name, width) == [Type |-> type, ID |-> name, Width |-> width]

\* *e.images = append(*e.images, img)
AppendImage(e, img) == [e EXCEPT !.images.list = Append(@, img)]

RECURSIVE processFormXObject(_, _, _, _), FormLoop(_, _, _, _, _),
          recordNestedImage(_, _, _, _, _)

\* Extractor.processFormXObject at nesting depth
processFormXObject(forms, e, xobj, depth) ==
    IF xobj.kind # "stream" THEN e
    ELSE IF depth > MaxFormDepth THEN [e EXCEPT !.overflow = TRUE]
    ELSE FormLoop(forms, [e EXCEPT !.descents[xobj.id] = @ + 1],
                  forms[xobj.id], 1, depth)

\* processFormXObject: the loop over the operations of the content stream, of
\* which content lists the operands of the Do operations
FormLoop(forms, e, content, k, depth) ==
    IF k > Len(content) \/ e.overflow THEN e
    ELSE Bind(IF content[k] \in DOMAIN XObjectNames
              THEN recordNestedImage(forms, e, content[k],
                                     XObjects[XObjectNames[content[k]]], depth)
              ELSE e,
              LAMBDA e1 : FormLoop(forms, e1, content, k + 1, depth))

\* Extractor.recordNestedImage
recordNestedImage(forms, e, name, xobj, depth) ==
    IF xobj.Subtype = "/Form" THEN processFormXObject(forms, e, xobj, depth + 1)
    ELSE IF xobj.Subtype # "/Image" THEN e
    ELSE AppendImage(e, ImageRecord("image", name, xobj.Width))

\* Extractor.recordImage
recordImage(forms, e, name) ==
    IF e.xobjects.nil THEN e
    ELSE IF name \notin DOMAIN e.xobjects.map THEN e
    ELSE LET xobj == XObjects[e.xobjects.map[name]]
         IN IF xobj.Subtype = "/Form" THEN processFormXObject(forms, e, xobj, 1)
            ELSE IF xobj.Subtype # "/Image" THEN e
            ELSE AppendImage(e, ImageRecord("image", name, xobj.Width))

\* Extractor.recordInlineImage
recordInlineImage(e, dict) ==
    AppendImage(e, ImageRecord("inline_image", "",
                               IF "/W" \in DOMAIN dict /\ dict["/W"].t = "num"
                               THEN dict["/W"].v
                               ELSE IF "/Width" \in DOMAIN dict /\ dict["/Width"].t = "num"
                               THEN dict["/Width"].v ELSE 0))

\* processOp, cases "INLINE_IMAGE" and "Do"; descents counts anew for each
\* operation
processImageOp(forms, e, op) ==
    LET e0 == [e EXCEPT !.descents = [f \in FormIds |-> 0]]
    IN IF e0.images.nil \/ Len(op.Operands) = 0 THEN e0
       ELSE IF op.Operator = "INLINE_IMAGE" /\ op.Operands[1].t = "dict"
       THEN recordInlineImage(e0, op.Operands[1].v)
       ELSE IF op.Operator = "Do" /\ op.Operands[1].t = "name"
       THEN recordImage(forms, e0, op.Operands[1].v)
       ELSE e0

\* the image state of the Extractor as NewExtractor leaves it; hasXObject says
\* whether the page's /Resources hold an /XObject dictionary
NewImageState(extractImages, hasXObject) ==
    [images |-> NewImages(extractImages),
     xobjects |-> IF extractImages /\ hasXObject
                  THEN [nil |-> FALSE, map |-> XObjectNames]
                  ELSE [nil |-> TRUE, map |-> EmptyMap],
     overflow |-> FALSE,
     descents |-> [f \in FormIds |-> 0]]

\* the operations of the page's content stream that concern images
ImageOperations ==
    { Operation("Do", <<Name(n)>>) : n \in {"/A", "/B", "/Im", "/D", "/P", "/X"} }
    \cup { Operation("Do", << >>), Operation("Do", <<Num(1)>>),
           Operation("INLINE_IMAGE", <<Dict("/W" :> Num(8))>>),
           Operation("INLINE_IMAGE", <<Dict("/Width" :> Num(9))>>),
           Operation("INLINE_IMAGE", << >>) }

\* the Do operands of the content streams of the forms 1 and 2
FormContents(n) ==
    UNION {[1..k -> {"/A", "/B", "/Im", "/X"}] : k \in 0..n}

MaxImgOps == 2

NoPage == [made |-> FALSE, Images |-> NilImages]

ImagesIdle ==
    /\ imgEnabled = FALSE
    /\ imgForms = << >>
    /\ imgExt = NewImageState(FALSE, FALSE)
    /\ imgOps = 0
    /\ imgPc = "idle"
    /\ imgPage = NoPage

\* NewExtractor has returned
ImagesInit ==
    /\ imgEnabled \in BOOLEAN
    /\ imgForms \in {<<c1, c2>> : c1 \in FormContents(2), c2 \in FormContents(1)}
    /\ \E hasXObject \in BOOLEAN : imgExt = NewImageState(imgEnabled, hasXObject)
    /\ imgOps = 0
    /\ imgPc = "run"
    /\ imgPage = NoPage

\* the body of ExtractText's loop on an operation that concerns images
ImageOpStep ==
    /\ imgPc = "run"
    /\ imgOps < MaxImgOps
    /\ \E op \in ImageOperations :
          \E e \in {processImageOp(imgForms, imgExt, op)} :
             /\ imgExt' = e
             /\ imgPc' = IF e.overflow THEN "overflow" ELSE "run"
    /\ imgOps' = imgOps + 1
    /\ UNCHANGED <<imgEnabled, imgForms, imgPage>>

\* ExtractText returns and the loader appends the page with
\* Images: extractor.GetImages()
ImagePageAppend ==
    /\ imgPc = "run"
    /\ imgPc' = "done"
    /\ imgPage' = [made |-> TRUE, Images |-> imgExt.images]
    /\ UNCHANGED <<imgEnabled, imgForms, imgExt, imgOps>>

-----------------------------------------------------------------------------
(* loader.loadPDFParallel: the sender, the workers, the closer of results    *)
(* and the collecting goroutine, one channel operation per step              *)

\* runtime.NumCPU()
NumCPU == 2

\* the zero model.Page
ZeroPage == [PageNumber |-> 0, Content |-> << >>, CharCount |-> 0]

\* the pages a document is made of: two that extract (with and without text),
\* one whose GetPage fails, one whose processing panics
ParPageKinds ==
    { [getPage |-> "ok", fontRes |-> "dict",
       content |-> [ops |-> <<Operation("BT", << >>),
                              Operation("Tf", <<Name("/F1"), Num(10)>>),
                              Operation("Tj", <<StrHi>>)>>, parseErr |-> FALSE]],
      [getPage |-> "ok", fontRes |-> "none", content |-> [ops |-> << >>, parseErr |-> FALSE]],
      [getPage |-> "err", fontRes |-> "none", content |-> [ops |-> << >>, parseErr |-> FALSE]],
      [getPage |-> "panic", fontRes |-> "none", content |-> [ops |-> << >>, parseErr |-> FALSE]] }

MaxParPages == 2

\* the workers argument: 0 asks for NumCPU
WorkerArgs == {0, 1}

\* a worker that numbers its pages from 0
WorkerResultZeroBased(doc, pageIdx) ==
    LET r == PageResult(doc[pageIdx + 1])
    IN IF r.st = "ok"
       THEN [st |-> "ok", pageNum |-> pageIdx, err |-> FALSE,
             page |-> [PageNumber |-> pageIdx, Content |-> r.text,
                       CharCount |-> Len(r.text)]]
       ELSE [st |-> r.st, pageNum |-> pageIdx, err |-> TRUE, page |-> ZeroPage]

\* the worker's loop body for page pageIdx: the pageResult it sends
WorkerResult(doc, pageIdx) ==
    LET r == PageResult(doc[pageIdx + 1])
    IN IF r.st = "ok"
       THEN [st |-> "ok", pageNum |-> pageIdx, err |-> FALSE,
             page |-> [PageNumber |-> pageIdx + 1, Content |-> r.text,
                       CharCount |-> Len(r.text)]]
       ELSE [st |-> r.st, pageNum |-> pageIdx, err |-> TRUE, page |-> ZeroPage]

\* the page stored in the first slot that is still free
PlaceInArrival(pages, result) ==
    LET free == {k \in 1..Len(pages) : pages[k].PageNumber = 0}
    IN [pages EXCEPT ![CHOOSE k \in free : \A j \in free : k <= j] = result.page]

\* pages[result.pageNum] = result.page
Place(pages, result) == [pages EXCEPT ![result.pageNum + 1] = result.page]

\* validPages: the pages whose PageNumber is above 0, in the order of the slice
RECURSIVE ValidPages(_, _)
ValidPages(pages, k) ==
    IF k > Len(pages) THEN << >>
    ELSE (IF pages[k].PageNumber > 0 THEN <<pages[k]>> ELSE << >>)
         \o ValidPages(pages, k + 1)

ParIdle ==
    /\ parIn = [doc |-> << >>, numPages |-> 0, workers |-> 0]
    /\ parPc = "idle"
    /\ parChan = [idx |-> << >>, sent |-> 0, idxClosed |-> FALSE,
                  res |-> << >>, resClosed |-> FALSE]
    /\ parW = << >>
    /\ parMain = [pages |-> << >>, errorCount |-> 0, arrival |-> << >>, out |-> << >>]

\* loadPDFParallel is entered; a /Count below 0 comes with no pages
ParInit ==
    /\ parIn \in {[doc |-> d, numPages |-> Len(d), workers |-> w] :
                    d \in UNION {[1..n -> ParPageKinds] : n \in 0..MaxParPages},
                    w \in WorkerArgs}
                 \cup {[doc |-> << >>, numPages |-> 0 - 1, workers |-> 1]}
    /\ parPc = "start"
    /\ parChan = [idx |-> << >>, sent |-> 0, idxClosed |-> FALSE,
                  res |-> << >>, resClosed |-> FALSE]
    /\ parW = << >>
    /\ parMain = [pages |-> << >>, errorCount |-> 0, arrival |-> << >>, out |-> << >>]

\* steps 1 to 3 and the make of step 6: the worker count, the channels (make
\* panics on a size below 0), the goroutines
ParStart ==
    /\ parPc = "start"
    /\ LET w0 == IF parIn.workers <= 0 THEN NumCPU ELSE parIn.workers
           workers == IF w0 > parIn.numPages THEN parIn.numPages ELSE w0
       IN IF parIn.numPages < 0
          THEN parPc' = "panic" /\ UNCHANGED <<parW, parMain>>
          ELSE /\ parPc' = "collect"
               /\ parW' = [w \in 1..workers |-> [pc |-> "start", idx |-> 0]]
               /\ parMain' = [parMain EXCEPT
                                 !.pages = [k \in 1..parIn.numPages |-> ZeroPage]]
    /\ UNCHANGED <<parIn, parChan>>

\* a sending loop that expects one index more than it is given
FeederOneMore(sent, numPages) == sent = numPages + 1

\* step 4: "for i := 0; i < numPages; i++" has ended
FeederDone(sent, numPages) == sent = numPages

\* step 4: pageIndices <- i (the buffer holds numPages, the send never blocks);
\* the sending goroutine runs on when loadPDFParallel has returned
SendIndex ==
    /\ parPc \in {"collect", "done"}
    /\ parChan.sent < parIn.numPages
    /\ parChan' = [parChan EXCEPT !.idx = Append(@, parChan.sent), !.sent = @ + 1]
    /\ UNCHANGED <<parIn, parPc, parW, parMain>>

\* step 4: close(pageIndices)
CloseIndices ==
    /\ parPc \in {"collect", "done"}
    /\ FeederDone(parChan.sent, parIn.numPages)
    /\ ~parChan.idxClosed
    /\ parChan' = [parChan EXCEPT !.idxClosed = TRUE]
    /\ UNCHANGED <<parIn, parPc, parW, parMain>>

\* a worker opens the file and makes its reader
WorkerOpen(w) ==
    /\ parPc = "collect"
    /\ parW[w].pc = "start"
    /\ parW' = [parW EXCEPT ![w].pc = "loop"]
    /\ UNCHANGED <<parIn, parPc, parChan, parMain>>

\* os.Open or NewReader fails in a worker: the select takes an index if the
\* channel has one, the zero value if it is closed and empty, else the default
WorkerOpenFail(w) ==
    /\ parPc = "collect"
    /\ parW[w].pc = "start"
    /\ IF parChan.idx # << >>
       THEN /\ parW' = [parW EXCEPT ![w] = [pc |-> "report", idx |-> Head(parChan.idx)]]
            /\ parChan' = [parChan EXCEPT !.idx = Tail(@)]
       ELSE IF parChan.idxClosed
       THEN /\ parW' = [parW EXCEPT ![w] = [pc |-> "report", idx |-> 0]]
            /\ UNCHANGED parChan
       ELSE /\ parW' = [parW EXCEPT ![w].pc = "done"]
            /\ UNCHANGED parChan
    /\ UNCHANGED <<parIn, parPc, parMain>>

\* for pageIdx := range pageIndices: the receive
WorkerTake(w) ==
    /\ parPc = "collect"
    /\ parW[w].pc = "loop"
    /\ parChan.idx # << >>
    /\ parW' = [parW EXCEPT ![w] = [pc |-> "busy", idx |-> Head(parChan.idx)]]
    /\ parChan' = [parChan EXCEPT !.idx = Tail(@)]
    /\ UNCHANGED <<parIn, parPc, parMain>>

\* the worker's loop body up to results <- pageResult{...}, which waits while
\* the buffer is full; a panic in the page ends the process
WorkerSend(w) ==
    /\ parPc = "collect"
    /\ parW[w].pc \in {"busy", "report"}
    /\ \E r \in {IF parW[w].pc = "report"
                 THEN [st |-> "err", pageNum |-> parW[w].idx, err |-> TRUE,
                       page |-> ZeroPage]
                 ELSE WorkerResult(parIn.doc, parW[w].idx)} :
          IF r.st = "panic"
          THEN parPc' = "panic" /\ UNCHANGED <<parW, parChan>>
          ELSE /\ Len(parChan.res) < parIn.numPages
               /\ parChan' = [parChan EXCEPT
                                 !.res = Append(@, [pageNum |-> r.pageNum, err |-> r.err,
                                                    page |-> r.page])]
               /\ parW' = [parW EXCEPT
                              ![w].pc = IF parW[w].pc = "report" THEN "done" ELSE "loop"]
               /\ UNCHANGED parPc
    /\ UNCHANGED <<parIn, parMain>>

\* the range over pageIndices ends: the channel is closed and empty
WorkerExit(w) ==
    /\ parPc = "collect"
    /\ parW[w].pc = "loop"
    /\ parChan.idx = << >>
    /\ parChan.idxClosed
    /\ parW' = [parW EXCEPT ![w].pc = "done"]
    /\ UNCHANGED <<parIn, parPc, parChan, parMain>>

\* step 5: wg.Wait(); close(results)
CloseResults ==
    /\ parPc = "collect"
    /\ ~parChan.resClosed
    /\ \A w \in DOMAIN parW : parW[w].pc = "done"
    /\ parChan' = [parChan EXCEPT !.resClosed = TRUE]
    /\ UNCHANGED <<parIn, parPc, parW, parMain>>

\* step 6: one iteration of "for result := range results"
Collect ==
    /\ parPc = "collect"
    /\ parChan.res # << >>
    /\ LET result == Head(parChan.res)
       IN parMain' = IF result.err
                     THEN [parMain EXCEPT !.errorCount = @ + 1,
                                          !.arrival = Append(@, result.pageNum)]
                     ELSE [parMain EXCEPT !.pages = Place(@, result),
                                          !.arrival = Append(@, result.pageNum)]
    /\ parChan' = [parChan EXCEPT !.res = Tail(@)]
    /\ UNCHANGED <<parIn, parPc, parW>>

\* step 7 and the return; make panics on a capacity below 0
ParReturn ==
    /\ parPc = "collect"
    /\ parChan.res = << >>
    /\ parChan.resClosed
    /\ IF parIn.numPages - parMain.errorCount < 0
       THEN parPc' = "panic" /\ UNCHANGED parMain
       ELSE /\ parPc' = "done"
            /\ parMain' = [parMain EXCEPT !.out = ValidPages(parMain.pages, 1)]
    /\ UNCHANGED <<parIn, parChan, parW>>

-----------------------------------------------------------------------------
(* PNG predictor of xref streams (src/pkg/pdf/xref.go)                       *)

\* a predictor that always takes the byte to the left
paethLeftOnly(a, b, c) == a

\* paethPredictor
paethPredictor(a, b, c) ==
    LET p == a + b - c
        pa == Abs(p - a)
        pb == Abs(p - b)
        pc == Abs(p - c)
    IN IF pa <= pb /\ pa <= pc THEN a
       ELSE IF pb <= pc THEN b
       ELSE c

\* case 1 (Sub): the loop over x with the running left
RECURSIVE SubLoop(_, _, _, _, _)
SubLoop(rowBytes, columns, x, left, outRow) ==
    IF x >= columns THEN outRow
    ELSE Bind((rowBytes[x + 1] + left) % 256, LAMBDA val :
            SubLoop(rowBytes, columns, x + 1, val, Append(outRow, val)))

\* case 3 (Average)
RECURSIVE AverageLoop(_, _, _, _, _, _)
AverageLoop(rowBytes, prevRow, columns, x, left, outRow) ==
    IF x >= columns THEN outRow
    ELSE Bind((rowBytes[x + 1] + ((left + prevRow[x + 1]) \div 2)) % 256, LAMBDA val :
            AverageLoop(rowBytes, prevRow, columns, x + 1, val, Append(outRow, val)))

\* case 4 (Paeth)
RECURSIVE PaethLoop(_, _, _, _, _, _, _)
PaethLoop(rowBytes, prevRow, columns, x, left, upperLeft, outRow) ==
    IF x >= columns THEN outRow
    ELSE Bind((rowBytes[x + 1] + paethPredictor(left, prevRow[x + 1], upperLeft)) % 256,
              LAMBDA val :
                 PaethLoop(rowBytes, prevRow, columns, x + 1, val, prevRow[x + 1],
                           Append(outRow, val)))

\* the switch on the filter byte of one row
DecodeRow(filter, rowBytes, prevRow, columns) ==
    CASE filter = 1 -> SubLoop(rowBytes, columns, 0, 0, << >>)
      [] filter = 2 -> [x \in 1..columns |-> (rowBytes[x] + prevRow[x]) % 256]
      [] filter = 3 -> AverageLoop(rowBytes, prevRow, columns, 0, 0, << >>)
      [] filter = 4 -> PaethLoop(rowBytes, prevRow, columns, 0, 0, 0, << >>)
      [] OTHER -> rowBytes

\* the loop over the rows: row i is decoded against the row before it
RECURSIVE DecodeRows(_, _, _, _, _, _)
DecodeRows(data, columns, i, rowCount, prevRow, out) ==
    IF i >= rowCount THEN out
    ELSE Bind(DecodeRow(data[i * (columns + 1) + 1],
                        SubSeq(data, i * (columns + 1) + 2, (i + 1) * (columns + 1)),
                        prevRow, columns),
              LAMBDA outRow :
                 DecodeRows(data, columns, i + 1, rowCount, outRow, out \o outRow))

\* applyPngPredictor, for columns >= 0
applyPngPredictor(data, columns, predictor) ==
    IF predictor < 10 \/ predictor > 15 THEN [st |-> "err", out |-> << >>]
    ELSE [st |-> "ok",
          out |-> DecodeRows(data, columns, 0, Len(data) \div (columns + 1),
                             [x \in 1..columns |-> 0], << >>)]

\* the predictor function of the PNG filter types 0 to 4 for the byte to the
\* left, the byte above and the byte above left
PngPredict(filter, left, up, upLeft) ==
    CASE filter = 0 -> 0
      [] filter = 1 -> left
      [] filter = 2 -> up
      [] filter = 3 -> (left + up) \div 2
      [] filter = 4 ->
           LET p == left + up - upLeft
           IN IF Abs(p - left) <= Abs(p - up) /\ Abs(p - left) <= Abs(p - upLeft) THEN left
              ELSE IF Abs(p - up) <= Abs(p - upLeft) THEN up
              ELSE upLeft

\* a PNG encoder: the filter byte, then every byte of the row less its
\* prediction from the unfiltered bytes around it, modulo 256
EncodeRow(filter, row, prior) ==
    <<filter>> \o
    [x \in 1..Len(row) |->
        (row[x] + 256
         - (PngPredict(filter,
                       IF x = 1 THEN 0 ELSE row[x - 1],
                       prior[x],
                       IF x = 1 THEN 0 ELSE prior[x - 1]) % 256)) % 256]

RECURSIVE EncodeRows(_, _, _, _)
EncodeRows(rows, filters, k, prior) ==
    IF k > Len(rows) THEN << >>
    ELSE EncodeRow(filters[k], rows[k], prior) \o EncodeRows(rows, filters, k + 1, rows[k])

\* the most rows of an encoded table
MaxPngRows == 2

\* the widths of a row and the bytes the rows are made of
PngColumns == {1, 2}

PngBytes == {0, 128, 255}

PngFilters == 0..4

PngPredictors == {12, 15}

PngIdle ==
    /\ pngIn = [rows |-> << >>, filters |-> << >>, data |-> << >>,
                columns |-> 0, predictor |-> 0]
    /\ pngOut = [st |-> "idle", out |-> << >>]

\* applyPngPredictor is about to be called on the encoding of some rows
PngInit ==
    /\ \E columns \in PngColumns, n \in 0..MaxPngRows :
          \E rows \in [1..n -> [1..columns -> PngBytes]], filters \in [1..n -> PngFilters],
             predictor \in PngPredictors :
             pngIn = [rows |-> rows, filters |-> filters,
                      data |-> EncodeRows(rows, filters, 1, [x \in 1..columns |-> 0]),
                      columns |-> columns, predictor |-> predictor]
    /\ pngOut = [st |-> "init", out |-> << >>]

\* the call of applyPngPredictor
ApplyPngPredictor ==
    /\ pngOut.st = "init"
    /\ pngOut' = applyPngPredictor(pngIn.data, pngIn.columns, pngIn.predictor)
    /\ UNCHANGED pngIn

-----------------------------------------------------------------------------
(* Page tree (src/unnamed/part_000).  A node holds its kids resolved: the    *)
(* array under /Kids is the array of the dictionaries Resolve returns.       *)

PageRes(st, node, target) == [st |-> st, node |-> node, target |-> target]

\* *targetIndex stays as it is
KeepTarget(target, count) == target

\* *targetIndex -= count
SkipSubtree(target, count) == target - count

RECURSIVE findPage(_, _), KidsLoop(_, _, _)

\* Reader.findPage; the result carries *targetIndex as the call leaves it
findPage(node, target) ==
    IF "/Type" \notin DOMAIN node.v THEN PageRes("panic", NoObject, target)
    ELSE IF node.v["/Type"] = Name("/Page")
    THEN IF target = 0 THEN PageRes("found", node, target)
         ELSE PageRes("nil", NoObject, target - 1)
    ELSE IF "/Kids" \notin DOMAIN node.v \/ node.v["/Kids"].t # "arr"
    THEN PageRes("panic", NoObject, target)
    ELSE KidsLoop(node.v["/Kids"].v, 1, target)

\* Reader.findPage: for _, kidRef := range kids, from kid k on
KidsLoop(kids, k, target) ==
    IF k > Len(kids) THEN PageRes("nil", NoObject, target)
    ELSE IF kids[k].t # "dict" THEN PageRes("panic", NoObject, target)
    ELSE LET kid == kids[k]
             hasCount == "/Count" \in DOMAIN kid.v /\ kid.v["/Count"].t = "num"
         IN IF hasCount /\ ~(target < kid.v["/Count"].v)
            THEN KidsLoop(kids, k + 1, SkipSubtree(target, kid.v["/Count"].v))
            ELSE Bind(findPage(kid, target), LAMBDA r :
                    IF r.st # "nil" THEN r
                    ELSE KidsLoop(kids, k + 1, r.target))

\* Reader.GetPage, from the resolved root of the page tree on
GetPage(rootPages, pageIndex) ==
    IF rootPages.t # "dict" THEN PageRes("err", NoObject, pageIndex)
    ELSE findPage(rootPages, pageIndex)

\* Reader.NumPages
NumPages(rootPages) ==
    IF rootPages.t = "dict" /\ "/Count" \in DOMAIN rootPages.v
       /\ rootPages.v["/Count"].t = "num"
    THEN rootPages.v["/Count"].v
    ELSE 0

\* the /Page leaves below a node, depth first and left to right
RECURSIVE Leaves(_), LeavesOfKids(_)
Leaves(node) ==
    IF node.v["/Type"] = Name("/Page") THEN <<node>>
    ELSE LeavesOfKids(node.v["/Kids"].v)

LeavesOfKids(kids) ==
    IF kids = << >> THEN << >> ELSE Leaves(Head(kids)) \o LeavesOfKids(Tail(kids))

\* a /Page leaf; /Id holds the path of kid indexes that leads to it
PageLeaf(path) == Dict(("/Type" :> Name("/Page")) @@ ("/Id" :> Arr(path)))

\* a /Pages node over kids, with the /Count of its leaves or with no /Count
PagesNode(kids, withCount) ==
    Dict((IF withCount THEN ("/Count" :> Num(Len(LeavesOfKids(kids)))) ELSE EmptyMap)
         @@ ("/Type" :> Name("/Pages")) @@ ("/Kids" :> Arr(kids)))

\* the most levels of /Pages nodes above a leaf
MaxTreeDepth == 2

\* the numbers of kids of a /Pages node
KidCounts == 0..2

\* the page trees of at most d levels of /Pages nodes, rooted at path
RECURSIVE PageTrees(_, _), KidLists(_, _, _)
PageTrees(d, path) ==
    {PageLeaf(path)}
    \cup (IF d = 0 THEN {}
          ELSE {PagesNode(kids, withCount) :
                    kids \in UNION {KidLists(d, path, n) : n \in KidCounts},
                    withCount \in BOOLEAN})

KidLists(d, path, n) ==
    IF n = 0 THEN {<< >>}
    ELSE {Append(kids, kid) : kids \in KidLists(d, path, n - 1),
                              kid \in PageTrees(d - 1, Append(path, Num(n)))}

\* what the catalog's /Pages may resolve to: a /Pages node, or no dictionary
PageTreeRoots ==
    {tree \in PageTrees(MaxTreeDepth, << >>) : tree.v["/Type"] = Name("/Pages")}
    \cup {NullObject}

TreeIdle ==
    /\ ptRoot = NoObject
    /\ ptIndex = 0
    /\ ptOut = PageRes("idle", NoObject, 0)

\* GetPage is about to be called with an index up to NumPages
TreeInit ==
    /\ ptRoot \in PageTreeRoots
    /\ ptIndex \in 0..NumPages(ptRoot)
    /\ ptOut = PageRes("init", NoObject, 0)

\* the call r.GetPage(pageIndex)
CallGetPage ==
    /\ ptOut.st = "init"
    /\ ptOut' = GetPage(ptRoot, ptIndex)
    /\ UNCHANGED <<ptRoot, ptIndex>>

-----------------------------------------------------------------------------
(* The end of line after the stream keyword (src/unnamed/part_000)           *)

\* readStream, step 3: the index in after of the first byte that is still
\* unread once the end of line is dealt with; 0 if ReadByte fails
AfterEOL(after) ==
    IF after = << >> THEN 0
    ELSE CASE after[1] = 13 -> IF Len(after) > 1 /\ after[2] = 10 THEN 3 ELSE 2
           [] after[1] = 10 -> 2
           [] OTHER -> 1

\* Reader.readStream of an unencrypted document, from step 2 on
readStreamAtKeyword(dict, after, objNum, genNum) ==
    IF "/Length" \notin DOMAIN dict \/ dict["/Length"].t # "num"
    THEN StreamRes("err", EmptyMap, << >>)
    ELSE IF AfterEOL(after) = 0 THEN StreamRes("err", EmptyMap, << >>)
    ELSE readStream(NilHandler, dict, SubSeq(after, AfterEOL(after), Len(after)),
                    objNum, genNum)

\* the most bytes behind the stream keyword
MaxAfterLen == 4

\* line feed, carriage return and a letter
EOLBytes == {10, 13, 65}

LengthValues == 0..2

EOLIdle ==
    /\ seAfter = << >>
    /\ seLength = 0
    /\ seOut = StreamRes("idle", EmptyMap, << >>)

\* GetObject has read a dictionary and peeked the keyword stream
EOLInit ==
    /\ seAfter \in UNION {[1..n -> EOLBytes] : n \in 0..MaxAfterLen}
    /\ seLength \in LengthValues
    /\ seOut = StreamRes("init", EmptyMap, << >>)

\* the call of readStream
ReadStreamAtKeyword ==
    /\ seOut.st = "init"
    /\ seOut' = readStreamAtKeyword("/Length" :> Num(seLength), seAfter, 7, 0)
    /\ UNCHANGED <<seAfter, seLength>>

-----------------------------------------------------------------------------
(* Reader.GetObject, getCompressedObject, readStream and Resolve as calls    *)
(* (src/unnamed/part_000).  Each call is a frame [fn, arg, pc] on goStack:   *)
(* pc is "entry" before the function's first statement and "wait" while the  *)
(* call it made has not returned.  The bytes of a stream are read by         *)
(* readStreamAtKeyword; here readStream is its first step, the /Length.      *)

\* the object numbers of the file
ObjectIds == {1, 2}

\* the calls the goroutine's stack has room for
MaxStack == 8

\* r.xref.Entries[n] together with the object at its offset
NoEntry == [e |-> "missing", obj |-> "none", length |-> NoObject, objstm |-> FALSE,
            streamObj |-> 0]
FreeEntry == [NoEntry EXCEPT !.e = "free"]
NumberAt == [NoEntry EXCEPT !.e = "inuse", !.obj = "num"]
\* a stream with this /Length; objstm: it has /N and /First and holds an object
StreamAt(length, objstm) ==
    [NoEntry EXCEPT !.e = "inuse", !.obj = "stream", !.length = length,
                    !.objstm = objstm]
CompressedIn(streamObj) == [NoEntry EXCEPT !.e = "compressed", !.streamObj = streamObj]

FileEntries ==
    {NoEntry, FreeEntry, NumberAt}
    \cup {StreamAt(l, o) : l \in {Num(0)} \cup {IndirectObject(m, 0) : m \in ObjectIds},
                           o \in BOOLEAN}
    \cup {CompressedIn(m) : m \in ObjectIds}

Frame(fn, arg) == [fn |-> fn, arg |-> arg, pc |-> "entry"]

\* the StreamObject readStream returns
StreamValue(objstm) == [t |-> "stream", v |-> objstm]

Top == goStack[Len(goStack)]

\* the innermost function calls another one; a call for which the stack has
\* no room ends the program
Call(frame) ==
    IF Len(goStack) >= MaxStack
    THEN /\ goOut' = [st |-> "overflow", obj |-> NoObject]
         /\ UNCHANGED goStack
    ELSE /\ goStack' = Append([goStack EXCEPT ![Len(goStack)].pc = "wait"], frame)
         /\ UNCHANGED goOut

\* the innermost function returns
Return(st, obj) ==
    /\ goStack' = SubSeq(goStack, 1, Len(goStack) - 1)
    /\ goOut' = [st |-> st, obj |-> obj]

Running(fn) ==
    /\ goStack # << >>
    /\ goOut.st # "overflow"
    /\ Top.fn = fn

\* GetObject(ref): the entry, then getCompressedObject, readStream or the
\* object itself; what the callee returns is returned as it is
GetObjectStep ==
    /\ Running("GetObject")
    /\ LET entry == goFile[Top.arg.v[1]]
       IN IF Top.pc = "wait" THEN Return(goOut.st, goOut.obj)
          ELSE IF entry.e = "missing" THEN Return("err", NoObject)
          ELSE IF entry.e = "free" THEN Return("ok", NullObject)
          ELSE IF entry.e = "compressed"
          THEN Call(Frame("getCompressedObject", Num(entry.streamObj)))
          ELSE IF entry.obj = "stream" THEN Call(Frame("readStream", Top.arg))
          ELSE Return("ok", Num(0))
    /\ UNCHANGED goFile

\* getCompressedObject(streamObjNum, index): GetObject on the container, then
\* the object read out of its data
getCompressedObjectStep ==
    /\ Running("getCompressedObject")
    /\ IF Top.pc = "entry" THEN Call(Frame("GetObject", IndirectObject(Top.arg.v, 0)))
       ELSE IF goOut.st = "err" THEN Return("err", NoObject)
       ELSE IF goOut.obj.t # "stream" THEN Return("err", NoObject)
       ELSE IF ~goOut.obj.v THEN Return("err", NoObject)
       ELSE Return("ok", Num(0))
    /\ UNCHANGED goFile

\* readStream step 1: lengthObj := r.Resolve(dict["/Length"])
readStreamStep ==
    /\ Running("readStream")
    /\ LET entry == goFile[Top.arg.v[1]]
       IN IF Top.pc = "entry" THEN Call(Frame("Resolve", entry.length))
          ELSE IF goOut.obj.t = "num" THEN Return("ok", StreamValue(entry.objstm))
          ELSE Return("err", NoObject)
    /\ UNCHANGED goFile

\* Resolve(obj): GetObject for a reference, NullObject when that fails
ResolveStep ==
    /\ Running("Resolve")
    /\ IF Top.pc = "entry"
       THEN IF Top.arg.t = "ref" THEN Call(Frame("GetObject", Top.arg))
            ELSE Return("ok", Top.arg)
       ELSE IF goOut.st = "err" THEN Return("ok", NullObject)
       ELSE Return("ok", goOut.obj)
    /\ UNCHANGED goFile

CallIdle ==
    /\ goFile = << >>
    /\ goStack = << >>
    /\ goOut = [st |-> "idle", obj |-> NoObject]

\* GetObject or Resolve is called with a reference to an object of the file
CallInit ==
    /\ goFile \in [ObjectIds -> FileEntries]
    /\ goStack \in {<<Frame(fn, IndirectObject(n, 0))>> :
                       fn \in {"GetObject", "Resolve"}, n \in ObjectIds}
    /\ goOut = [st |-> "run", obj |-> NoObject]

-----------------------------------------------------------------------------
(* Properties                                                                *)

PageFails(k) == PageResult(pdfFile[k + 1]).st # "ok"

\* C1: a failure while getting or extracting one page is confined to that
\* page: LoadPDF never aborts, and when it returns, every failed page has been
\* reported and every other page is in doc.Pages
C1_PageFailureIsolated ==
    /\ loadPc # "panic"
    /\ loadPc = "returned" =>
          \A k \in 0..(Len(pdfFile) - 1) :
             IF PageFails(k) THEN k \in reported
             ELSE \E j \in 1..Len(docPages) : docPages[j].PageNumber = k + 1

ShowRuleHolds(s) ==
    LET nonEmpty == Len(s.before) > 0
        newline  == 2 * Abs(s.y - s.lastY) > s.size
    IN /\ s.sep = IF newline /\ nonEmpty THEN <<10>>
                  ELSE IF ~newline /\ s.wide /\ nonEmpty
                          /\ Last(s.before) # 10 /\ Last(s.before) # 32
                       THEN <<32>>
                       ELSE << >>
       /\ (s.before = << >>) => (s.sep = << >>)
       /\ (s.sep = <<32>>) => (Last(s.before) \notin {10, 32})

\* C10: before a shown string handleText writes a newline when
\* |y - lastY| > 0.5*size and the output is non-empty; otherwise one space
\* when x - lastX > threshold and the output is non-empty and does not end in
\* newline or space; nothing else.  So the output never begins with a written
\* separator and a written space never follows a space or a newline.
C10_SeparatorRule ==
    \A k \in 1..Len(ext.shows) : ShowRuleHolds(ext.shows[k])

\* a space was written after text, and a show at a wide gap wrote none
\* because the output ended in a space
C10_Witness ==
    /\ \E k \in 1..Len(ext.shows) : ext.shows[k].sep = <<32>>
    /\ \E k \in 1..Len(ext.shows) :
          /\ ext.shows[k].wide
          /\ ext.shows[k].before # << >>
          /\ Last(ext.shows[k].before) = 32
          /\ ext.shows[k].sep = << >>

\* the CTM and the depth of the stack before the k-th operation of the history
CtmBefore(k) == IF k = 1 THEN IdentityMatrix ELSE gfxLog[k - 1].ctm

DepthBefore(k) == IF k = 1 THEN 0 ELSE gfxLog[k - 1].depth

\* the q that the Q at position k closes, found by counting brackets backwards
\* from position i with c further Q to close; 0 if there is none
RECURSIVE MatchingQ(_, _)
MatchingQ(i, c) ==
    IF i = 0 THEN 0
    ELSE IF gfxLog[i].op = "Q" THEN MatchingQ(i - 1, c + 1)
    ELSE IF gfxLog[i].op = "q"
         THEN IF c = 0 THEN i ELSE MatchingQ(i - 1, c - 1)
    ELSE MatchingQ(i - 1, c)

\* C12: in every sequence of q, Q and cm, a Q restores the CTM to the value it
\* had at the matching q and pops exactly one entry; a Q with no matching q
\* (empty stack) leaves the CTM and the stack unchanged; a q leaves the CTM
\* as it is and pushes one entry, which the cm operators after it do not alter
C12_QRestoresMatchingQ ==
    \A k \in 1..Len(gfxLog) :
        /\ gfxLog[k].op = "Q" =>
              \E j \in {MatchingQ(k - 1, 0)} :
                 IF j = 0
                 THEN /\ gfxLog[k].ctm = CtmBefore(k)
                      /\ gfxLog[k].depth = DepthBefore(k)
                      /\ DepthBefore(k) = 0
                 ELSE /\ gfxLog[k].ctm = CtmBefore(j)
                      /\ gfxLog[k].depth = DepthBefore(k) - 1
        /\ gfxLog[k].op = "q" =>
              /\ gfxLog[k].ctm = CtmBefore(k)
              /\ gfxLog[k].depth = DepthBefore(k) + 1

\* a Q closed a q after cm operators had changed the CTM in between, and a Q
\* met an empty stack with a CTM that is not the identity
C12_Witness ==
    /\ \E k \in 1..Len(gfxLog) :
          /\ gfxLog[k].op = "Q"
          /\ MatchingQ(k - 1, 0) # 0
          /\ CtmBefore(k) # gfxLog[k].ctm
    /\ \E k \in 1..Len(gfxLog) :
          /\ gfxLog[k].op = "Q"
          /\ MatchingQ(k - 1, 0) = 0
          /\ gfxLog[k].ctm # IdentityMatrix

\* C11: a show whose horizontal gap from the end of the previous string is not
\* larger than 0.2 times the font size never writes a space before the string,
\* whatever the space width of the font (the threshold being the larger of
\* 0.2 * size and half the space width)
C11_SmallGapNoSpace ==
    \A k \in 1..Len(ext.shows) :
        LET s == ext.shows[k]
        IN (s.x - s.lastX) * 5 <= s.size => s.sep # <<32>>

\* C2: for every finite byte input Lexer.ReadObject returns an object, the
\* end-of-input sentinel or an error; it never aborts with a panic, also
\* when the input ends inside an array, dictionary, string, hex string or name
C2_ReadObjectNeverPanics == lexRes.st # "panic"

\* C9: ParseCMap returns on every finite input: its loop is left eventually,
\* a token the lexer rejects does not make it loop forever
C9_ParseCMapReturns == <>(cmapPc # "loop")

\* the indexes of the file at which a whole `startxref` begins inside the last
\* min(WindowSize, size) bytes
KeywordInWindow(data) ==
    {i \in 1..Len(data) :
        /\ i > Len(data) - WindowSize
        /\ i + 8 <= Len(data)
        /\ \A k \in 1..9 : data[i + k - 1] = StartXRefKeyword[k]}

\* the runs a..b of digits that follow index j of the file after white space
\* only and that no further digit follows
IntegerAfter(data, j) ==
    UNION {{<<a, b>> : b \in {c \in a..Len(data) :
                                /\ \A k \in a..c : isDigit(data[k])
                                /\ c = Len(data) \/ ~isDigit(data[c + 1])}} :
           a \in {c \in j..Len(data) :
                     /\ isDigit(data[c])
                     /\ \A k \in j..(c - 1) : isSpace(data[k])}}

\* C3: findStartXRef fails with startxref-not-found whenever the last
\* min(1024, size) bytes hold no `startxref` (so for the empty input); when
\* they do, it does not, and the offset it returns is the integer that follows
\* the last occurrence in that window
C3_StartXRefWindow ==
    xrefStart.st # "init" =>
        LET occ == KeywordInWindow(xrefData)
        IN /\ occ = {} => xrefStart.st = "notfound"
           /\ occ # {} =>
                /\ xrefStart.st # "notfound"
                /\ xrefStart.st = "ok" <=> IntegerAfter(xrefData, Max(occ) + 9) # {}
                /\ xrefStart.st = "ok" =>
                      \E ab \in IntegerAfter(xrefData, Max(occ) + 9) :
                         xrefStart.off = DecimalValue(SubSeq(xrefData, ab[1], ab[2]), 0)

\* a file of more than 1024 bytes with a `startxref` outside the window and
\* two inside it, read to the offset after the later one
C3_Witness ==
    /\ xrefStart.st = "ok"
    /\ Len(xrefData) > WindowSize
    /\ Cardinality(KeywordInWindow(xrefData)) = 2
    /\ Occurrences(xrefData, StartXRefKeyword) # {i - 1 : i \in KeywordInWindow(xrefData)}
    /\ xrefStart.off = 5

\* the rows of a section in file order, each with the id it is for and the
\* entry it gives ("none" for a stream row of a type that gives none)
SectionRows(sec) ==
    CASE sec.kind = "xref" ->
            Flatten([n \in 1..Len(sec.subsections) |->
                [i \in 1..Len(sec.subsections[n].lines) |->
                    [id |-> sec.subsections[n].start + i - 1,
                     given |-> TRUE,
                     e |-> [Offset |-> sec.subsections[n].lines[i].offset,
                            Generation |-> sec.subsections[n].lines[i].gen,
                            Free |-> sec.subsections[n].lines[i].flag = 102,
                            Compressed |-> FALSE, StreamObj |-> 0, StreamIdx |-> 0]]]])
      [] sec.kind = "stream" ->
            [j \in 1..Len(sec.rows) |->
                [id |-> sec.dict["/Index"].v[1].v + j - 1,
                 given |-> sec.rows[j][1] \in {0, 1, 2},
                 e |-> [Offset |-> IF sec.rows[j][1] = 1 THEN sec.rows[j][2] ELSE 0,
                        Generation |-> IF sec.rows[j][1] = 2 THEN 0 ELSE sec.rows[j][3],
                        Free |-> sec.rows[j][1] = 0,
                        Compressed |-> sec.rows[j][1] = 2,
                        StreamObj |-> IF sec.rows[j][1] = 2 THEN sec.rows[j][2] ELSE 0,
                        StreamIdx |-> IF sec.rows[j][1] = 2 THEN sec.rows[j][3] ELSE 0]]]
      [] OTHER -> << >>

\* the dictionary a section contributes to the trailer
SectionTrailer(sec) ==
    CASE sec.kind = "xref" -> sec.trailer.v
      [] sec.kind = "stream" -> sec.dict
      [] OTHER -> EmptyMap

\* the rows and the trailer dictionaries of the sections parsed so far, in
\* the order of parsing
ParsedRows == [n \in 1..Len(xrOrder) |-> SectionRows(xrSections[xrOrder[n]])]

ParsedTrailers == [n \in 1..Len(xrOrder) |-> SectionTrailer(xrSections[xrOrder[n]])]

\* the places <<n, i>> (n-th section parsed, its i-th row) that give id an entry
GivenAt(rows, id) ==
    {ni \in (1..Len(rows)) \X (1..4) :
        /\ ni[2] <= Len(rows[ni[1]])
        /\ rows[ni[1]][ni[2]].id = id
        /\ rows[ni[1]][ni[2]].given}

\* the first of a set of places: the earliest section, in it the earliest row
FirstPlace(places) ==
    CHOOSE ni \in places :
        \A mj \in places : ni[1] < mj[1] \/ (ni[1] = mj[1] /\ ni[2] <= mj[2])

\* the sections parsed so far that have key in their trailer dictionary
KeyGivenAt(trailers, key) == {n \in 1..Len(trailers) : key \in DOMAIN trailers[n]}

TrailerKeys == {"/Size", "/Root", "/Info", "/Prev", "/Type", "/Length", "/W", "/Index"}

\* C4: while ParseXRef walks the chain and when it returns, every object id and
\* every trailer key holds the value given by the first section in walk order
\* that gives it one; no later section has replaced it
C4_FirstSectionWins ==
    xrPc \in {"walk", "done"} =>
        \A rows \in {ParsedRows} : \A trailers \in {ParsedTrailers} :
            /\ \A id \in 0..4 : \A places \in {GivenAt(rows, id)} :
                  IF places = {} THEN id \notin DOMAIN xrTable.Entries
                  ELSE /\ id \in DOMAIN xrTable.Entries
                       /\ \E ni \in {FirstPlace(places)} :
                             xrTable.Entries[id] = rows[ni[1]][ni[2]].e
            /\ DOMAIN xrTable.Entries \subseteq 0..4
            /\ \A key \in TrailerKeys : \A ns \in {KeyGivenAt(trailers, key)} :
                  IF ns = {} THEN key \notin DOMAIN xrTable.Trailer
                  ELSE /\ key \in DOMAIN xrTable.Trailer
                       /\ xrTable.Trailer[key] = trailers[Min(ns)][key]
            /\ DOMAIN xrTable.Trailer \subseteq TrailerKeys

\* a returned table made of three sections, with an id and a trailer key that
\* a later section gives a different value
C4_Witness ==
    /\ xrPc = "done"
    /\ Len(xrOrder) = 3
    /\ \E id \in 0..4 : \E ni \in GivenAt(ParsedRows, id) :
          ParsedRows[ni[1]][ni[2]].e # xrTable.Entries[id]
    /\ \E n \in KeyGivenAt(ParsedTrailers, "/Root") :
          ParsedTrailers[n]["/Root"] # xrTable.Trailer["/Root"]

\* no offset occurs twice among the sections parsed
ParsedOnce == \A m, n \in 1..Len(xrOrder) : xrOrder[m] = xrOrder[n] => m = n

\* C5: the walk along /Prev ends for every chain of sections, cycles included:
\* no offset is parsed twice, and the loop is left at an offset that is 0 (no
\* /Prev) or was visited before
C5_WalkTerminates ==
    /\ <>(xrPc \notin {"start", "walk"})
    /\ [](ParsedOnce)
    /\ [](xrPc = "done" => xrNext = 0 \/ xrNext \in xrVisited)

\* a walk that ended because /Prev led back to a section parsed before
C5_Witness ==
    /\ xrPc = "done"
    /\ Len(xrOrder) >= 2
    /\ xrNext # 0
    /\ xrNext \in xrVisited

\* the key length in bits the setup asks for, as ParseEncryptDict defaults it
SetupLength(d) ==
    IF "/Length" \in DOMAIN d /\ d["/Length"].t = "num" THEN d["/Length"].v
    ELSE IF d["/R"].v = 2 THEN 40 ELSE 128

\* a key length the algorithm of version V can work with: 40 to 128 bits in
\* whole bytes for RC4, 128 bits for AES
UsableLength(V, length) ==
    IF V = 4 THEN length = 128
    ELSE length \in 40..128 /\ length % 8 = 0

\* the encryption setups the document cannot be read with
UnusableSetup(obj) ==
    \/ obj.t # "dict"
    \/ /\ obj.t = "dict"
       /\ \/ \E k \in {"/Filter", "/V", "/R", "/O", "/U", "/P"} : k \notin DOMAIN obj.v
          \/ /\ {"/Filter", "/V", "/R", "/O", "/U", "/P"} \subseteq DOMAIN obj.v
             /\ \/ obj.v["/Filter"] # Name("/Standard")
                \/ obj.v["/V"].v \notin {1, 2, 4}
                \/ obj.v["/R"].v \notin {2, 3, 4}
                \/ ~UsableLength(obj.v["/V"].v, SetupLength(obj.v))

\* C6: once NewReader is over for a document whose /Encrypt setup is unusable
\* (wrong /Filter, a missing V, R, O, U or P, V outside {1,2,4}, R outside
\* {2,3,4}, an unusable key length), it has returned an error
C6_UnusableSetupRejected ==
    (rdEncrypt.t # "none" /\ UnusableSetup(rdEncrypt) /\ rdPc # "init")
        => rdPc = "error"

\* the last call read a String or HexString whose decryption fails
StringDecryptFails ==
    /\ rdOut.op = "object"
    /\ rdOut.in.t \in {"str", "hex"}
    /\ ~rdHandler.nil
    /\ Decrypt(rdHandler, rdOut.in.v, rdOut.num, 0).st # "ok"

\* C7: when decrypting a String or HexString of a non-stream object fails,
\* decryptObject returns the original bytes unchanged and the resolution of
\* the object completes
C7_FailedDecryptKeepsOriginal ==
    StringDecryptFails => (rdOut.st = "ok" /\ rdOut.obj = rdOut.in)

\* data is what zlib accepts: header and body
ValidZlib(data) == ZlibHeaderOk(data) /\ ZlibReadAll(data).st = "ok"

\* the bytes of the stream of the last call as /Length delimits them
RawBytes == SubSeq(rdOut.in.v, 1, rdOut.in.dict["/Length"].v)

\* the last call read a stream whose only filter is /FlateDecode and whose
\* bytes are no zlib data, neither as stored nor after what decryption of them
\* gives
FlateStreamNotZlib ==
    /\ rdOut.op = "stream"
    /\ "/Length" \in DOMAIN rdOut.in.dict
    /\ rdOut.in.dict["/Length"].v \in 0..Len(rdOut.in.v)
    /\ FilterNames(rdOut.in.dict) = <<"/FlateDecode">>
    /\ ~ValidZlib(RawBytes)
    /\ \/ rdHandler.nil
       \/ \E dec \in {Decrypt(rdHandler, RawBytes, rdOut.num, 0)} :
             dec.st = "ok" => ~ValidZlib(dec.data)

\* the bytes of the stream of the last call as they stand before decompression
BeforeDecompression ==
    IF rdHandler.nil THEN RawBytes
    ELSE LET dec == Decrypt(rdHandler, RawBytes, rdOut.num, 0)
         IN IF dec.st = "ok" THEN dec.data ELSE RawBytes

\* C8: for a stream whose /Filter names /FlateDecode and whose bytes are not
\* valid zlib data, readStream returns without error a Stream whose data is the
\* bytes as they were before decompression
C8_BadZlibReturnsData ==
    FlateStreamNotZlib
        => (rdOut.st = "ok" /\ rdOut.obj.v = BeforeDecompression)

\* C13: processing a Do on a Form XObject returns, also when forms refer to
\* themselves or to each other through their resources, and enters each form at
\* most once
C13_FormsDescendedOnce ==
    /\ imgPc # "overflow"
    /\ \A f \in FormIds : imgExt.descents[f] <= 1

\* C14: the images list of the Extractor, and of the page appended from it, is
\* absent (nil) exactly when image extraction is disabled and a list exactly
\* when it is enabled, empty as long as no operation was processed; with
\* extraction disabled no Do or inline-image operation records anything
C14_ImagesAbsentIffDisabled ==
    /\ imgExt.images.nil <=> ~imgEnabled
    /\ imgPage.made => (imgPage.Images.nil <=> ~imgEnabled)
    /\ imgPage.made => imgPage.Images = imgExt.images
    /\ ~imgEnabled => imgExt.images.list = << >>
    /\ imgOps = 0 => imgExt.images.list = << >>

\* a page was appended after Do and inline-image operations were processed
\* with extraction disabled
C14_Witness ==
    /\ imgPage.made
    /\ ~imgEnabled
    /\ imgOps = MaxImgOps
    /\ imgPage.Images.nil

\* C15: the pages loadPDFParallel returns are in strictly ascending order of
\* page index, and each is the page extracted for the index its PageNumber
\* names less one, whatever the number of workers and the order in which the
\* results arrive
C15_PagesAscending ==
    parPc = "done" =>
        /\ \A k \in 1..Len(parMain.out) :
              /\ parMain.out[k].PageNumber \in 1..parIn.numPages
              /\ parMain.out[k] =
                    WorkerResult(parIn.doc, parMain.out[k].PageNumber - 1).page
        /\ \A k, l \in 1..Len(parMain.out) :
              k < l => parMain.out[k].PageNumber < parMain.out[l].PageNumber

\* two pages were returned whose results arrived in descending order
C15_Witness ==
    /\ parPc = "done"
    /\ Len(parMain.out) >= 2
    /\ \E k, l \in 1..Len(parMain.arrival) :
          k < l /\ parMain.arrival[k] > parMain.arrival[l]

\* C16: for every byte string b, ReadObject on "<" hex(b) ">", with or without
\* whitespace between the digits, yields a HexString whose payload is the
\* bytes b
C16_HexStringDecoded ==
    \A b \in HexPayloads, layout \in HexLayouts :
        (lexData = HexSource(b, layout) /\ lexRes.st # "init" /\ lexPos > 1)
            => (lexRes.st = "ok" /\ lexRes.obj = HexStr(b))

\* C17: ReadObject yields an IndirectRef only by consuming a token that is
\* exactly R (whitespace before it; whitespace, a delimiter or the end of input
\* after it), whatever the amount of whitespace between the tokens: a keyword
\* that begins with R is never consumed into an IndirectRef
C17_ReferenceNeedsLoneR ==
    (lexRes.st = "ok" /\ lexRes.obj.t = "ref")
        => /\ lexPos > 2
           /\ lexData[lexPos - 1] = 82
           /\ isWhitespace(lexData[lexPos - 2])
           /\ (lexPos > Len(lexData)
               \/ isWhitespace(lexData[lexPos]) \/ isDelimiter(lexData[lexPos]))

\* C18: after ParseXRef has succeeded every object id in Entries lies in
\* 0 .. /Size - 1 of the trailer, for classical tables and for xref streams
\* with or without /Index
C18_EntriesWithinSize ==
    xrPc = "done"
        => \A id \in DOMAIN xrTable.Entries :
              /\ "/Size" \in DOMAIN xrTable.Trailer
              /\ xrTable.Trailer["/Size"].t = "num"
              /\ id >= 0
              /\ id < xrTable.Trailer["/Size"].v

\* the first object id of the rows of an xref stream
FirstStreamId(sec) ==
    IF "/Index" \in DOMAIN sec.dict THEN sec.dict["/Index"].v[1].v ELSE 0

\* C19: in an xref stream whose /W has w0 = 0 every row yields an InUse entry
\* with offset f2 and generation f3 (the type defaults to 1); no row yields a
\* Free entry. Stated for the section that is parsed first, whose entries
\* nothing can precede.
C19_ZeroWidthTypeIsInUse ==
    \A k \in DOMAIN xrSections :
        (/\ xrPc \in {"walk", "done"}
         /\ xrOrder # << >>
         /\ xrOrder[1] = k
         /\ xrSections[k].kind = "stream"
         /\ xrSections[k].dict["/W"].v[1].v = 0)
            => \A j \in 1..Len(xrSections[k].rows) :
                  LET id == FirstStreamId(xrSections[k]) + j - 1
                      row == xrSections[k].rows[j]
                  IN /\ id \in DOMAIN xrTable.Entries
                     /\ xrTable.Entries[id] = XRefEntry(row[2], row[3], FALSE, FALSE, 0, 0)

\* C20: for every sequence of rows of columns bytes, encoding each row with a
\* PNG filter of type 0 to 4 and decoding the result with applyPngPredictor
\* returns exactly the original rows
C20_PredictorRoundTrip ==
    pngOut.st \notin {"idle", "init"}
        => (pngOut.st = "ok" /\ pngOut.out = Flatten(pngIn.rows))

\* two rows of two bytes, the second encoded with the Paeth filter where the
\* byte above is the prediction, have been decoded
C20_Witness ==
    /\ pngOut.st = "ok"
    /\ Len(pngIn.rows) = 2
    /\ pngIn.columns = 2
    /\ pngIn.filters = <<3, 4>>
    /\ pngIn.rows[1] = <<128, 255>>
    /\ pngIn.rows[2] = <<255, 0>>
    /\ pngOut.out = <<128, 255, 255, 0>>

\* C21: in a page tree whose every /Count is the number of /Page leaves below
\* its node, GetPage(i) with 0 <= i < NumPages returns the i-th leaf in
\* depth-first, left-to-right order, at every nesting depth
C21_GetPageReturnsIthLeaf ==
    (ptOut.st \notin {"idle", "init"} /\ ptIndex < NumPages(ptRoot))
        => (ptOut.st = "found" /\ ptOut.node = Leaves(ptRoot)[ptIndex + 1])

\* the last page of a tree whose root has a leaf and, after it, a node of two
\* leaves has been returned
C21_Witness ==
    /\ ptOut.st = "found"
    /\ ptIndex = 2
    /\ NumPages(ptRoot) = 3
    /\ Len(ptRoot.v["/Kids"].v) = 2
    /\ ptOut.node = PageLeaf(<<Num(2), Num(2)>>)

\* the bytes of the one end of line that may follow the keyword: 2 for a
\* carriage return and line feed, 1 for a line feed, 0 for anything else (a
\* carriage return on its own is not consumed)
ClaimedEOL(after) ==
    IF Len(after) >= 2 /\ after[1] = 13 /\ after[2] = 10 THEN 2
    ELSE IF Len(after) >= 1 /\ after[1] = 10 THEN 1
    ELSE 0

\* C22: readStream consumes exactly one end of line after the keyword, a line
\* feed or a carriage return and line feed; a carriage return with no line
\* feed behind it is not consumed; the stream data is exactly the /Length
\* bytes that follow
C22_OneEOLThenLengthBytes ==
    (seOut.st \notin {"idle", "init"} /\ seAfter # << >>
     /\ ClaimedEOL(seAfter) + seLength <= Len(seAfter))
        => /\ seOut.st = "ok"
           /\ seOut.obj.v = SubSeq(seAfter, ClaimedEOL(seAfter) + 1,
                                   ClaimedEOL(seAfter) + seLength)

\* every filter of the list applied once, in the order of the list: a
\* /FlateDecode inflates data that is zlib data and leaves any other data as it
\* is, a filter of another name does nothing
RECURSIVE InflateAll(_, _)
InflateAll(filters, data) ==
    IF filters = << >> THEN data
    ELSE InflateAll(Tail(filters),
                    IF Head(filters) = "/FlateDecode" /\ ValidZlib(data)
                    THEN ZlibReadAll(data).data
                    ELSE data)

\* the last call read a stream, with a handler, whose /Length bytes decrypt
EncryptedStreamRead ==
    /\ rdOut.op = "stream"
    /\ ~rdHandler.nil
    /\ "/Length" \in DOMAIN rdOut.in.dict
    /\ rdOut.in.dict["/Length"].v \in 0..Len(rdOut.in.v)
    /\ Decrypt(rdHandler, RawBytes, rdOut.num, 0).st = "ok"

\* C23: a stream read with encryption in effect is the result of decrypting
\* the raw /Length bytes once, with the key of the stream's object and
\* generation number, and then applying the filters of /Filter once each, in
\* the listed order, to the decrypted bytes; no filter sees the bytes still
\* encrypted when decryption succeeds
C23_DecryptThenFilters ==
    EncryptedStreamRead
        => /\ rdOut.st = "ok"
           /\ rdOut.obj.v = InflateAll(FilterNames(rdOut.in.dict),
                                       Decrypt(rdHandler, RawBytes, rdOut.num, 0).data)

\* an encrypted stream of compressed data has been read and came out as the
\* text that was compressed
C23_Witness ==
    /\ EncryptedStreamRead
    /\ FilterNames(rdOut.in.dict) = <<"/FlateDecode">>
    /\ ~ValidZlib(RawBytes)
    /\ rdOut.obj.v = <<72, 105>>

\* the dictionary keys whose values are kept from decryption
ListedKeys ==
    {"/Type", "/Subtype", "/Length", "/Filter", "/DecodeParms", "/Width", "/Height",
     "/BitsPerComponent", "/ColorSpace", "/Encrypt", "/ID", "/Size", "/Root",
     "/Info", "/Prev", "/Index", "/W", "/First", "/N"}

\* out is in but for the bytes of Strings and HexStrings that lie beneath no
\* listed key
RECURSIVE OnlyStringsChanged(_, _)
OnlyStringsChanged(in, out) ==
    CASE in.t \in {"str", "hex"} -> out.t = in.t
      [] in.t = "arr" ->
           /\ out.t = "arr"
           /\ Len(out.v) = Len(in.v)
           /\ \A i \in 1..Len(in.v) : OnlyStringsChanged(in.v[i], out.v[i])
      [] in.t = "dict" ->
           /\ out.t = "dict"
           /\ DOMAIN out.v = DOMAIN in.v
           /\ \A k \in DOMAIN in.v :
                 IF k \in ListedKeys THEN out.v[k] = in.v[k]
                 ELSE OnlyStringsChanged(in.v[k], out.v[k])
      [] OTHER -> out = in

\* C24: what decryptObject returns differs from its argument in String and
\* HexString values only; the value under a listed key is unchanged with all
\* that is nested in it, at every depth, and Numbers, Names, Booleans and Null
\* are unchanged
C24_OnlyStringsDecrypted ==
    (rdOut.op = "object" /\ rdOut.st = "ok")
        => OnlyStringsChanged(rdOut.in, rdOut.obj)

\* the nested dictionary has been decrypted: the string beside /ID changed,
\* the strings beneath /ID did not
C24_Witness ==
    /\ rdOut.op = "object"
    /\ rdOut.st = "ok"
    /\ ~rdHandler.nil
    /\ rdOut.in = NestedObject
    /\ rdOut.obj.v["/Kids"].v[1].v["/T"] # NestedObject.v["/Kids"].v[1].v["/T"]
    /\ rdOut.obj.v["/Kids"].v[1].v["/ID"] = NestedObject.v["/Kids"].v[1].v["/ID"]

\* the map a bfrange entry with the payloads start, end and dst stands for:
\* the codes start+i with 0 <= i <= end - start at the byte length of start,
\* each going to the UTF-16BE decoding of dst+i at the byte length of start
ClaimedRange(start, end, dst) ==
    LET n == hexToInt(end) - hexToInt(start)
        key(i) == intToHex(hexToInt(start) + i, Len(start))
    IN [k \in {key(i) : i \in 0..n} |->
            LET i == CHOOSE j \in 0..n : key(j) = k
            IN decodeUTF16BE(intToHex(hexToInt(dst) + i, Len(start)))]

\* C25: a bfrange entry <start> <end> <dst> with a HexString dst gives the CMap
\* exactly the codes start+i, 0 <= i <= end - start, keyed at the byte length
\* of start, each mapped to the UTF-16BE decoding of
\* intToHex(value(dst)+i, len(start)); with end < start it gives no mapping
C25_SequentialRange ==
    \A pair \in RangePairs, dst \in RangeDsts :
        (lexData = BFRangeSource(pair, dst) /\ cmapPc = "done")
            => cmapMap = ClaimedRange(pair[1], pair[2], dst)

\* the text-line matrix the claim gives for the last step
ClaimedTLM ==
    LET o == posLast.op.Operands
        ts == posLast.pre.textState
    IN CASE posLast.op.Operator = "BT" -> IdentityMatrix
         [] posLast.op.Operator \in {"Td", "TD"} -> Mult(Translate(o[1].v, o[2].v), ts.TLM)
         [] posLast.op.Operator = "T*" -> Mult(Translate(0, 0 - ts.Leading), ts.TLM)
         [] posLast.op.Operator = "Tm" ->
              <<o[1].v, o[2].v, o[3].v, o[4].v, o[5].v, o[6].v>>

\* the last step was BT, Td, TD, T* or a Tm with six operands
PositioningStep ==
    \/ posLast.op.Operator \in {"BT", "Td", "TD", "T*"}
    \/ posLast.op.Operator = "Tm" /\ Len(posLast.op.Operands) = 6

\* C26: immediately after BT, Td, TD, T* and Tm with six operands TM equals
\* TLM, and TLM is the identity (BT), Translate(tx,ty) * TLM (Td, TD, where TD
\* also sets Leading to -ty), Translate(0,-Leading) * TLM (T*) or the operand
\* matrix (Tm); the CTM and the graphics stack are unchanged
C26_TextMatrixFollowsLine ==
    PositioningStep
        => /\ posLast.post.textState.TLM = ClaimedTLM
           /\ posLast.post.textState.TM = posLast.post.textState.TLM
           /\ posLast.op.Operator = "TD"
                 => posLast.post.textState.Leading = 0 - posLast.op.Operands[2].v
           /\ posLast.post.gState = posLast.pre.gState
           /\ posLast.post.gStack = posLast.pre.gStack
           /\ ~posLast.post.panicked

\* a T* moved to the next line with a leading that is not 0 when the text
\* matrix had left the line matrix
C26_Witness ==
    /\ posLast.op.Operator = "T*"
    /\ posLast.pre.textState.TM # posLast.pre.textState.TLM
    /\ posLast.pre.textState.Leading # 0
    /\ posLast.post.textState.TM = posLast.post.textState.TLM

\* the document has a page whose processing panics in the worker
PagePanics ==
    \E k \in 1..Len(parIn.doc) : PageResult(parIn.doc[k]).st = "panic"

\* the collecting loop of step 6 has ended and every goroutine is at its end:
\* the index channel is closed, every worker has returned, the results channel
\* is closed
ParFinished ==
    /\ parPc \in {"done", "panic"}
    /\ parChan.idxClosed
    /\ parChan.resClosed
    /\ \A w \in DOMAIN parW : parW[w].pc = "done"

ResultsFor(i) == Cardinality({k \in DOMAIN parMain.arrival : parMain.arrival[k] = i})

\* C28: in loadPDFParallel every page index in 0..numPages-1 is received by
\* exactly one worker and yields exactly one result, a page stored at that
\* index or a reported error, under every interleaving and also when a worker
\* fails at start-up: no index is processed twice, none is dropped without a
\* reported error
C28_OneResultPerIndex ==
    (ParFinished /\ ~PagePanics)
        => /\ \A i \in 0..(parIn.numPages - 1) : ResultsFor(i) = 1
           /\ Len(parMain.arrival) = parIn.numPages

\* every page of the document extracts
NoPageFails ==
    \A k \in 1..Len(parIn.doc) : PageResult(parIn.doc[k]).st = "ok"

\* every worker that took part started: one result came for each page and none
\* of them is an error
EveryPageHandled ==
    /\ parMain.errorCount = 0
    /\ Len(parMain.arrival) = parIn.numPages

CallReturned ==
    /\ goStack = << >>
    /\ goOut.st \in {"ok", "err"}

\* C30: GetObject and Resolve terminate for every xref table and object
\* graph, also when a Compressed entry names as its container an object whose
\* own entry is Compressed and leads back to it, directly or through others,
\* and when a stream's /Length is a reference that resolves to the stream
\* itself
C30_GetObjectTerminates == <>CallReturned

-----------------------------------------------------------------------------
(* Specifications                                                            *)

vars == <<loaderVars, textVars, lexVars, cmapVars, startVars, walkVars, readerVars,
    gfxVars, imgVars, parVars, pngVars, treeVars, eolVars, posVars, callVars>>

LoaderNext ==
    \/ LoadPage
         /\ UNCHANGED <<textVars, lexVars, cmapVars, startVars, walkVars, readerVars,
                      gfxVars, imgVars, parVars, pngVars, treeVars, eolVars, posVars,
                      callVars>>
    \/ LoadReturn
         /\ UNCHANGED <<textVars, lexVars, cmapVars, startVars, walkVars, readerVars,
                      gfxVars, imgVars, parVars, pngVars, treeVars, eolVars, posVars,
                      callVars>>

InitLoader ==
    LoaderInit /\ TextIdle /\ LexerIdle /\ CMapIdle /\ StartXRefIdle /\ XRefIdle
        /\ ReaderIdle /\ GraphicsIdle /\ ImagesIdle /\ ParIdle /\ PngIdle /\ TreeIdle
        /\ EOLIdle /\ PositionIdle /\ CallIdle

SpecLoader == InitLoader /\ [][LoaderNext]_vars

TextNext ==
    \/ ProcessOpStep
         /\ UNCHANGED <<loaderVars, lexVars, cmapVars, startVars, walkVars, readerVars,
                      gfxVars, imgVars, parVars, pngVars, treeVars, eolVars, posVars,
                      callVars>>

InitText ==
    TextInit /\ LoaderIdle /\ LexerIdle /\ CMapIdle /\ StartXRefIdle /\ XRefIdle
        /\ ReaderIdle /\ GraphicsIdle /\ ImagesIdle /\ ParIdle /\ PngIdle /\ TreeIdle
        /\ EOLIdle /\ PositionIdle /\ CallIdle

SpecText == InitText /\ [][TextNext]_vars

LexerNext ==
    \/ LexReadObject
         /\ UNCHANGED <<loaderVars, textVars, cmapVars, startVars, walkVars, readerVars,
                      gfxVars, imgVars, parVars, pngVars, treeVars, eolVars, posVars,
                      callVars>>

InitLexer ==
    LexerInit /\ LoaderIdle /\ TextIdle /\ CMapIdle /\ StartXRefIdle /\ XRefIdle
        /\ ReaderIdle /\ GraphicsIdle /\ ImagesIdle /\ ParIdle /\ PngIdle /\ TreeIdle
        /\ EOLIdle /\ PositionIdle /\ CallIdle

SpecLexer == InitLexer /\ [][LexerNext]_vars

CMapNext ==
    \/ ParseCMapStep
         /\ UNCHANGED <<loaderVars, textVars, startVars, walkVars, readerVars, gfxVars,
                      imgVars, parVars, pngVars, treeVars, eolVars, posVars, callVars>>

InitCMap ==
    CMapInit /\ LoaderIdle /\ TextIdle /\ StartXRefIdle /\ XRefIdle /\ ReaderIdle
        /\ GraphicsIdle /\ ImagesIdle /\ ParIdle /\ PngIdle /\ TreeIdle /\ EOLIdle
        /\ PositionIdle /\ CallIdle

\* ParseCMap runs on the goroutine that called it; nothing can keep it from
\* taking its next step
SpecCMap == InitCMap /\ [][CMapNext]_vars /\ WF_vars(CMapNext)

StartXRefNext ==
    \/ FindStartXRef
         /\ UNCHANGED <<loaderVars, textVars, lexVars, cmapVars, walkVars, readerVars,
                      gfxVars, imgVars, parVars, pngVars, treeVars, eolVars, posVars,
                      callVars>>

InitStartXRef ==
    StartXRefInit /\ LoaderIdle /\ TextIdle /\ LexerIdle /\ CMapIdle /\ XRefIdle
        /\ ReaderIdle /\ GraphicsIdle /\ ImagesIdle /\ ParIdle /\ PngIdle /\ TreeIdle
        /\ EOLIdle /\ PositionIdle /\ CallIdle

SpecStartXRef == InitStartXRef /\ [][StartXRefNext]_vars

XRefNext ==
    \/ ParseXRefBegin
         /\ UNCHANGED <<loaderVars, textVars, lexVars, cmapVars, readerVars, gfxVars,
                      imgVars, parVars, pngVars, treeVars, eolVars, posVars, callVars>>
    \/ ParseXRefIter
         /\ UNCHANGED <<loaderVars, textVars, lexVars, cmapVars, readerVars, gfxVars,
                      imgVars, parVars, pngVars, treeVars, eolVars, posVars, callVars>>
    \/ ParseXRefReturn
         /\ UNCHANGED <<loaderVars, textVars, lexVars, cmapVars, readerVars, gfxVars,
                      imgVars, parVars, pngVars, treeVars, eolVars, posVars, callVars>>

InitXRef ==
    XRefInit /\ LoaderIdle /\ TextIdle /\ LexerIdle /\ CMapIdle /\ ReaderIdle
        /\ GraphicsIdle /\ ImagesIdle /\ ParIdle /\ PngIdle /\ TreeIdle /\ EOLIdle
        /\ PositionIdle /\ CallIdle

\* ParseXRef is one sequential function: its next step is always taken
SpecXRef == InitXRef /\ [][XRefNext]_vars /\ WF_vars(XRefNext)

ReaderNext ==
    \/ NewReader
         /\ UNCHANGED <<loaderVars, textVars, lexVars, cmapVars, startVars, walkVars,
                      gfxVars, imgVars, parVars, pngVars, treeVars, eolVars, posVars,
                      callVars>>
    \/ GetObject
         /\ UNCHANGED <<loaderVars, textVars, lexVars, cmapVars, startVars, walkVars,
                      gfxVars, imgVars, parVars, pngVars, treeVars, eolVars, posVars,
                      callVars>>
    \/ GetStream
         /\ UNCHANGED <<loaderVars, textVars, lexVars, cmapVars, startVars, walkVars,
                      gfxVars, imgVars, parVars, pngVars, treeVars, eolVars, posVars,
                      callVars>>

InitReader ==
    ReaderInit /\ LoaderIdle /\ TextIdle /\ LexerIdle /\ CMapIdle /\ StartXRefIdle
        /\ XRefIdle /\ GraphicsIdle /\ ImagesIdle /\ ParIdle /\ PngIdle /\ TreeIdle
        /\ EOLIdle /\ PositionIdle /\ CallIdle

SpecReader == InitReader /\ [][ReaderNext]_vars

GraphicsNext ==
    \/ GraphicsOpStep
         /\ UNCHANGED <<loaderVars, lexVars, cmapVars, startVars, walkVars, readerVars,
                      imgVars, parVars, pngVars, treeVars, eolVars, posVars, callVars>>

InitGraphics ==
    GraphicsInit /\ LoaderIdle /\ LexerIdle /\ CMapIdle /\ StartXRefIdle /\ XRefIdle
        /\ ReaderIdle /\ ImagesIdle /\ ParIdle /\ PngIdle /\ TreeIdle /\ EOLIdle
        /\ PositionIdle /\ CallIdle

SpecGraphics == InitGraphics /\ [][GraphicsNext]_vars

ImagesNext ==
    \/ ImageOpStep
         /\ UNCHANGED <<loaderVars, textVars, lexVars, cmapVars, startVars, walkVars,
                      readerVars, gfxVars, parVars, pngVars, treeVars, eolVars, posVars,
                      callVars>>
    \/ ImagePageAppend
         /\ UNCHANGED <<loaderVars, textVars, lexVars, cmapVars, startVars, walkVars,
                      readerVars, gfxVars, parVars, pngVars, treeVars, eolVars, posVars,
                      callVars>>

InitImages ==
    ImagesInit /\ LoaderIdle /\ TextIdle /\ LexerIdle /\ CMapIdle /\ StartXRefIdle
        /\ XRefIdle /\ ReaderIdle /\ GraphicsIdle /\ ParIdle /\ PngIdle /\ TreeIdle
        /\ EOLIdle /\ PositionIdle /\ CallIdle

SpecImages == InitImages /\ [][ImagesNext]_vars

ParallelNext ==
    \/ ParStart
         /\ UNCHANGED <<loaderVars, textVars, lexVars, cmapVars, startVars, walkVars,
                      readerVars, gfxVars, imgVars, pngVars, treeVars, eolVars, posVars,
                      callVars>>
    \/ SendIndex
         /\ UNCHANGED <<loaderVars, textVars, lexVars, cmapVars, startVars, walkVars,
                      readerVars, gfxVars, imgVars, pngVars, treeVars, eolVars, posVars,
                      callVars>>
    \/ CloseIndices
         /\ UNCHANGED <<loaderVars, textVars, lexVars, cmapVars, startVars, walkVars,
                      readerVars, gfxVars, imgVars, pngVars, treeVars, eolVars, posVars,
                      callVars>>
    \/ \E w \in DOMAIN parW : WorkerOpen(w)
         /\ UNCHANGED <<loaderVars, textVars, lexVars, cmapVars, startVars, walkVars,
                      readerVars, gfxVars, imgVars, pngVars, treeVars, eolVars, posVars,
                      callVars>>
    \/ \E w \in DOMAIN parW : WorkerOpenFail(w)
         /\ UNCHANGED <<loaderVars, textVars, lexVars, cmapVars, startVars, walkVars,
                      readerVars, gfxVars, imgVars, pngVars, treeVars, eolVars, posVars,
                      callVars>>
    \/ \E w \in DOMAIN parW : WorkerTake(w)
         /\ UNCHANGED <<loaderVars, textVars, lexVars, cmapVars, startVars, walkVars,
                      readerVars, gfxVars, imgVars, pngVars, treeVars, eolVars, posVars,
                      callVars>>
    \/ \E w \in DOMAIN parW : WorkerSend(w)
         /\ UNCHANGED <<loaderVars, textVars, lexVars, cmapVars, startVars, walkVars,
                      readerVars, gfxVars, imgVars, pngVars, treeVars, eolVars, posVars,
                      callVars>>
    \/ \E w \in DOMAIN parW : WorkerExit(w)
         /\ UNCHANGED <<loaderVars, textVars, lexVars, cmapVars, startVars, walkVars,
                      readerVars, gfxVars, imgVars, pngVars, treeVars, eolVars, posVars,
                      callVars>>
    \/ CloseResults
         /\ UNCHANGED <<loaderVars, textVars, lexVars, cmapVars, startVars, walkVars,
                      readerVars, gfxVars, imgVars, pngVars, treeVars, eolVars, posVars,
                      callVars>>
    \/ Collect
         /\ UNCHANGED <<loaderVars, textVars, lexVars, cmapVars, startVars, walkVars,
                      readerVars, gfxVars, imgVars, pngVars, treeVars, eolVars, posVars,
                      callVars>>
    \/ ParReturn
         /\ UNCHANGED <<loaderVars, textVars, lexVars, cmapVars, startVars, walkVars,
                      readerVars, gfxVars, imgVars, pngVars, treeVars, eolVars, posVars,
                      callVars>>

InitParallel ==
    ParInit /\ LoaderIdle /\ TextIdle /\ LexerIdle /\ CMapIdle /\ StartXRefIdle /\ XRefIdle
        /\ ReaderIdle /\ GraphicsIdle /\ ImagesIdle /\ PngIdle /\ TreeIdle /\ EOLIdle
        /\ PositionIdle /\ CallIdle

SpecParallel == InitParallel /\ [][ParallelNext]_vars

HexLexerNext ==
    \/ LexReadObject
         /\ UNCHANGED <<loaderVars, textVars, cmapVars, startVars, walkVars, readerVars,
                      gfxVars, imgVars, parVars, pngVars, treeVars, eolVars, posVars,
                      callVars>>

InitHexLexer ==
    HexLexerInit /\ LoaderIdle /\ TextIdle /\ CMapIdle /\ StartXRefIdle /\ XRefIdle
        /\ ReaderIdle /\ GraphicsIdle /\ ImagesIdle /\ ParIdle /\ PngIdle /\ TreeIdle
        /\ EOLIdle /\ PositionIdle /\ CallIdle

SpecHexLexer == InitHexLexer /\ [][HexLexerNext]_vars

RefLexerNext ==
    \/ LexReadObject
         /\ UNCHANGED <<loaderVars, textVars, cmapVars, startVars, walkVars, readerVars,
                      gfxVars, imgVars, parVars, pngVars, treeVars, eolVars, posVars,
                      callVars>>

InitRefLexer ==
    RefLexerInit /\ LoaderIdle /\ TextIdle /\ CMapIdle /\ StartXRefIdle /\ XRefIdle
        /\ ReaderIdle /\ GraphicsIdle /\ ImagesIdle /\ ParIdle /\ PngIdle /\ TreeIdle
        /\ EOLIdle /\ PositionIdle /\ CallIdle

SpecRefLexer == InitRefLexer /\ [][RefLexerNext]_vars

SizedXRefNext ==
    \/ ParseXRefBegin
         /\ UNCHANGED <<loaderVars, textVars, lexVars, cmapVars, readerVars, gfxVars,
                      imgVars, parVars, pngVars, treeVars, eolVars, posVars, callVars>>
    \/ ParseXRefIter
         /\ UNCHANGED <<loaderVars, textVars, lexVars, cmapVars, readerVars, gfxVars,
                      imgVars, parVars, pngVars, treeVars, eolVars, posVars, callVars>>
    \/ ParseXRefReturn
         /\ UNCHANGED <<loaderVars, textVars, lexVars, cmapVars, readerVars, gfxVars,
                      imgVars, parVars, pngVars, treeVars, eolVars, posVars, callVars>>

InitSizedXRef ==
    SizedXRefInit /\ LoaderIdle /\ TextIdle /\ LexerIdle /\ CMapIdle /\ ReaderIdle
        /\ GraphicsIdle /\ ImagesIdle /\ ParIdle /\ PngIdle /\ TreeIdle /\ EOLIdle
        /\ PositionIdle /\ CallIdle

SpecSizedXRef == InitSizedXRef /\ [][SizedXRefNext]_vars

PngNext ==
    \/ ApplyPngPredictor
         /\ UNCHANGED <<loaderVars, textVars, lexVars, cmapVars, startVars, walkVars,
                      readerVars, gfxVars, imgVars, parVars, treeVars, eolVars, posVars,
                      callVars>>

InitPng ==
    PngInit /\ LoaderIdle /\ TextIdle /\ LexerIdle /\ CMapIdle /\ StartXRefIdle /\ XRefIdle
        /\ ReaderIdle /\ GraphicsIdle /\ ImagesIdle /\ ParIdle /\ TreeIdle /\ EOLIdle
        /\ PositionIdle /\ CallIdle

SpecPng == InitPng /\ [][PngNext]_vars

PageTreeNext ==
    \/ CallGetPage
         /\ UNCHANGED <<loaderVars, textVars, lexVars, cmapVars, startVars, walkVars,
                      readerVars, gfxVars, imgVars, parVars, pngVars, eolVars, posVars,
                      callVars>>

InitPageTree ==
    TreeInit /\ LoaderIdle /\ TextIdle /\ LexerIdle /\ CMapIdle /\ StartXRefIdle
        /\ XRefIdle /\ ReaderIdle /\ GraphicsIdle /\ ImagesIdle /\ ParIdle /\ PngIdle
        /\ EOLIdle /\ PositionIdle /\ CallIdle

SpecPageTree == InitPageTree /\ [][PageTreeNext]_vars

StreamEOLNext ==
    \/ ReadStreamAtKeyword
         /\ UNCHANGED <<loaderVars, textVars, lexVars, cmapVars, startVars, walkVars,
                      readerVars, gfxVars, imgVars, parVars, pngVars, treeVars, posVars,
                      callVars>>

InitStreamEOL ==
    EOLInit /\ LoaderIdle /\ TextIdle /\ LexerIdle /\ CMapIdle /\ StartXRefIdle /\ XRefIdle
        /\ ReaderIdle /\ GraphicsIdle /\ ImagesIdle /\ ParIdle /\ PngIdle /\ TreeIdle
        /\ PositionIdle /\ CallIdle

SpecStreamEOL == InitStreamEOL /\ [][StreamEOLNext]_vars

BFRangeNext ==
    \/ ParseCMapStep
         /\ UNCHANGED <<loaderVars, textVars, startVars, walkVars, readerVars, gfxVars,
                      imgVars, parVars, pngVars, treeVars, eolVars, posVars, callVars>>

InitBFRange ==
    BFRangeInit /\ LoaderIdle /\ TextIdle /\ StartXRefIdle /\ XRefIdle /\ ReaderIdle
        /\ GraphicsIdle /\ ImagesIdle /\ ParIdle /\ PngIdle /\ TreeIdle /\ EOLIdle
        /\ PositionIdle /\ CallIdle

SpecBFRange == InitBFRange /\ [][BFRangeNext]_vars

PositionNext ==
    \/ PositionOpStep
         /\ UNCHANGED <<loaderVars, lexVars, cmapVars, startVars, walkVars, readerVars,
                      gfxVars, imgVars, parVars, pngVars, treeVars, eolVars, callVars>>

InitPosition ==
    PositionInit /\ LoaderIdle /\ LexerIdle /\ CMapIdle /\ StartXRefIdle /\ XRefIdle
        /\ ReaderIdle /\ GraphicsIdle /\ ImagesIdle /\ ParIdle /\ PngIdle /\ TreeIdle
        /\ EOLIdle /\ CallIdle

SpecPosition == InitPosition /\ [][PositionNext]_vars

ParallelRunNext ==
    \/ ParStart
         /\ UNCHANGED <<loaderVars, textVars, lexVars, cmapVars, startVars, walkVars,
                      readerVars, gfxVars, imgVars, pngVars, treeVars, eolVars, posVars,
                      callVars>>
    \/ SendIndex
         /\ UNCHANGED <<loaderVars, textVars, lexVars, cmapVars, startVars, walkVars,
                      readerVars, gfxVars, imgVars, pngVars, treeVars, eolVars, posVars,
                      callVars>>
    \/ CloseIndices
         /\ UNCHANGED <<loaderVars, textVars, lexVars, cmapVars, startVars, walkVars,
                      readerVars, gfxVars, imgVars, pngVars, treeVars, eolVars, posVars,
                      callVars>>
    \/ \E w \in DOMAIN parW : WorkerOpen(w)
         /\ UNCHANGED <<loaderVars, textVars, lexVars, cmapVars, startVars, walkVars,
                      readerVars, gfxVars, imgVars, pngVars, treeVars, eolVars, posVars,
                      callVars>>
    \/ \E w \in DOMAIN parW : WorkerOpenFail(w)
         /\ UNCHANGED <<loaderVars, textVars, lexVars, cmapVars, startVars, walkVars,
                      readerVars, gfxVars, imgVars, pngVars, treeVars, eolVars, posVars,
                      callVars>>
    \/ \E w \in DOMAIN parW : WorkerTake(w)
         /\ UNCHANGED <<loaderVars, textVars, lexVars, cmapVars, startVars, walkVars,
                      readerVars, gfxVars, imgVars, pngVars, treeVars, eolVars, posVars,
                      callVars>>
    \/ \E w \in DOMAIN parW : WorkerSend(w)
         /\ UNCHANGED <<loaderVars, textVars, lexVars, cmapVars, startVars, walkVars,
                      readerVars, gfxVars, imgVars, pngVars, treeVars, eolVars, posVars,
                      callVars>>
    \/ \E w \in DOMAIN parW : WorkerExit(w)
         /\ UNCHANGED <<loaderVars, textVars, lexVars, cmapVars, startVars, walkVars,
                      readerVars, gfxVars, imgVars, pngVars, treeVars, eolVars, posVars,
                      callVars>>
    \/ CloseResults
         /\ UNCHANGED <<loaderVars, textVars, lexVars, cmapVars, startVars, walkVars,
                      readerVars, gfxVars, imgVars, pngVars, treeVars, eolVars, posVars,
                      callVars>>
    \/ Collect
         /\ UNCHANGED <<loaderVars, textVars, lexVars, cmapVars, startVars, walkVars,
                      readerVars, gfxVars, imgVars, pngVars, treeVars, eolVars, posVars,
                      callVars>>
    \/ ParReturn
         /\ UNCHANGED <<loaderVars, textVars, lexVars, cmapVars, startVars, walkVars,
                      readerVars, gfxVars, imgVars, pngVars, treeVars, eolVars, posVars,
                      callVars>>

InitParallelRun ==
    ParInit /\ LoaderIdle /\ TextIdle /\ LexerIdle /\ CMapIdle /\ StartXRefIdle /\ XRefIdle
        /\ ReaderIdle /\ GraphicsIdle /\ ImagesIdle /\ PngIdle /\ TreeIdle /\ EOLIdle
        /\ PositionIdle /\ CallIdle

\* the Go scheduler runs every goroutine that can take a step; no step of
\* loadPDFParallel leads back to a state it has left
SpecParallelRun == InitParallelRun /\ [][ParallelRunNext]_vars /\ WF_vars(ParallelRunNext)

CallsNext ==
    \/ GetObjectStep
         /\ UNCHANGED <<loaderVars, textVars, lexVars, cmapVars, startVars, walkVars,
                      readerVars, gfxVars, imgVars, parVars, pngVars, treeVars, eolVars,
                      posVars>>
    \/ getCompressedObjectStep
         /\ UNCHANGED <<loaderVars, textVars, lexVars, cmapVars, startVars, walkVars,
                      readerVars, gfxVars, imgVars, parVars, pngVars, treeVars, eolVars,
                      posVars>>
    \/ readStreamStep
         /\ UNCHANGED <<loaderVars, textVars, lexVars, cmapVars, startVars, walkVars,
                      readerVars, gfxVars, imgVars, parVars, pngVars, treeVars, eolVars,
                      posVars>>
    \/ ResolveStep
         /\ UNCHANGED <<loaderVars, textVars, lexVars, cmapVars, startVars, walkVars,
                      readerVars, gfxVars, imgVars, parVars, pngVars, treeVars, eolVars,
                      posVars>>

InitCalls ==
    CallInit /\ LoaderIdle /\ TextIdle /\ LexerIdle /\ CMapIdle /\ StartXRefIdle
        /\ XRefIdle /\ ReaderIdle /\ GraphicsIdle /\ ImagesIdle /\ ParIdle /\ PngIdle
        /\ TreeIdle /\ EOLIdle /\ PositionIdle

\* a call that can take its next step takes it
SpecCalls == InitCalls /\ [][CallsNext]_vars /\ WF_vars(CallsNext)

=============================================================================
